---- MODULE Spec2Model ----
(***************************************************************************)
(* habitattrack-api: the feature-sliced domain services (properties,       *)
(* categories, transactions) wired to their Firestore repositories, as in  *)
(* main.go.                                                                *)
(*                                                                         *)
(* State: the three Firestore collections, the wall clock read by          *)
(* time.Now(), the supply of uuid.NewString() values, and for every        *)
(* in-flight request its position in the service method, the entity the    *)
(* method holds, and the result it returned.                               *)
(*                                                                         *)
(* Granularity: one step per Firestore round trip.  What a service method  *)
(* computes between two round trips (validation, merge, time stamps)       *)
(* belongs to the step of the round trip that precedes it; a write is      *)
(* prepared (stamped) in one step and reaches the collection in the next   *)
(* (DocSet / DocDelete), so other requests can run in between.             *)
(*                                                                         *)
(* Firestore itself is outside the repository.  The model uses its         *)
(* documented behaviour: Get of a missing document is NotFound, Set        *)
(* creates or overwrites, Delete of a missing document succeeds, and       *)
(* timestamps are stored with a coarser precision than time.Now().         *)
(*                                                                         *)
(* The database outlives the process, so Init is a populated database      *)
(* whose records satisfy the data model (unique (name, classification),    *)
(* type = classification of the referenced category).                      *)
(***************************************************************************)
EXTENDS Integers, Sequences, FiniteSets, TLC

----------------------------------------------------------------------------
(* Bounds and value domains *)

\* requests served in one run
MaxRequests == 2

\* Firestore keeps timestamps in units of TimeGranule clock readings
TimeGranule == 2

Procs == {"a", "b"}

ZeroTime == 0
SeedTime == TimeGranule
ClockStart == SeedTime + TimeGranule

\* uuid.NewString() hands these out in order
FreshIds == <<"n1", "n2", "n3", "n4", "n5">>

SeedIds == {"p1", "p2", "c1", "c2", "c3", "t1", "t2", "t3", "t4"}
AbsentId == "u0"
MalformedId == "not-a-uuid"

RangeOf(s) == {s[i] : i \in DOMAIN s}

\* the strings uuid.Parse accepts
UUIDs == SeedIds \cup RangeOf(FreshIds) \cup {AbsentId}

\* a nil pointer is <<>>, a pointer to v is <<v>>
NilPtr == <<>>
Ptr(v) == <<v>>
Deref(ptr) == ptr[1]

NoEntity == [none |-> TRUE]

----------------------------------------------------------------------------
(* Constants of the source *)

propertyCollection == "properties"
categoryCollection == "transaction_categories"
transactionCollection == "transactions"

IncomeClassification == "income"
ExpenseClassification == "expense"
IncomeTransaction == "income"
ExpenseTransaction == "expense"

CodeInternalError == "INTERNAL_ERROR"
CodeValidationError == "VALIDATION_ERROR"
CodeNotFound == "NOT_FOUND"
CodeConflict == "CONFLICT"
CodeBadRequest == "BAD_REQUEST"
CodeNone == "OK"

NoErr == "nil"
ErrPropertyNotFound == "property not found"
ErrEmptyPropertyID == "property ID cannot be empty"
ErrCategoryNotFound == "transaction category not found"
ErrEmptyCategoryID == "transaction category ID cannot be empty"
ErrTransactionNotFound == "transaction not found"
ErrEmptyTransactionID == "transaction ID cannot be empty"
ErrFindEmptyName == "category name cannot be empty for FindByNameAndClassification"
ErrFindEmptyClassification == "classification cannot be empty for FindByNameAndClassification"
ErrNoRows == "sql: no rows in result set"

\* what a Firestore call returns when it cannot be served: the service is
\* unreachable, the constants.DefaultTimeout deadline passes, or the caller's
\* context is cancelled
ErrUnavailable == "rpc error: code = Unavailable"
ErrDeadlineExceeded == "rpc error: code = DeadlineExceeded"
ErrCanceled == "rpc error: code = Canceled"
Faults == {ErrUnavailable, ErrDeadlineExceeded, ErrCanceled}

\* what Firestore answers to a query it refuses (a negative Limit or Offset)
ErrInvalidArgument == "rpc error: code = InvalidArgument"

\* package config
DefaultPort == 8080
DefaultFirestoreDatabaseID == "habitattrack"
MinPort == 1024
MaxPort == 65535

ErrPortOutOfRange == "port must be between 1024 and 65535"
ErrEmptyGoogleCloudProject == "google cloud project cannot be empty"
ErrSyntax == "strconv.Atoi: invalid syntax"

----------------------------------------------------------------------------
(* The database at start-up *)

SeedProperties ==
  [id \in {"p1"} |->
     [ID |-> "p1", Name |-> "Flat", Address |-> NilPtr,
      CreatedAt |-> SeedTime, UpdatedAt |-> SeedTime]]

SeedCategories ==
  [id \in {"c1", "c2"} |->
     IF id = "c1"
       THEN [ID |-> "c1", Name |-> "Rent", Classification |-> IncomeClassification,
             CreatedAt |-> SeedTime, UpdatedAt |-> SeedTime]
       ELSE [ID |-> "c2", Name |-> "Rent", Classification |-> ExpenseClassification,
             CreatedAt |-> SeedTime, UpdatedAt |-> SeedTime]]

SeedTransactions ==
  [id \in {"t1", "t2"} |->
     IF id = "t1"
       THEN [ID |-> "t1", Amount |-> 1, TransactionDate |-> SeedTime,
             Description |-> NilPtr, Type |-> IncomeTransaction,
             CategoryID |-> "c1", PropertyID |-> NilPtr,
             CreatedAt |-> SeedTime, UpdatedAt |-> SeedTime]
       ELSE [ID |-> "t2", Amount |-> 3, TransactionDate |-> SeedTime + TimeGranule,
             Description |-> Ptr("d"), Type |-> ExpenseTransaction,
             CategoryID |-> "c2", PropertyID |-> Ptr("p1"),
             CreatedAt |-> SeedTime, UpdatedAt |-> SeedTime]]

----------------------------------------------------------------------------
VARIABLES
  store,     \* collection name -> (document id -> document)
  clock,     \* the next value of time.Now().UTC()
  nextID,    \* index in FreshIds of the next uuid.NewString()
  served,    \* requests accepted so far
  pc,        \* per request: "idle", "validate", "unique", "set", "delete", "done"
  call,      \* per request: the service method and its arguments
  ent,       \* per request: the entity the service method holds
  fetched,   \* per request: the entity as repo.GetByID returned it
  ports,     \* per request: the store-port methods invoked so far
  result,    \* per request: what the service method returned
  fault,     \* NoErr, or the error every Firestore call fails with at present
  boot       \* start-up: where config.New is, its options, the Config, its results

vars == <<store, clock, nextID, served, pc, call, ent, fetched, ports, result, fault, boot>>

\* the process after a start-up that succeeded with the defaults
Booted ==
  [pc |-> "returned", given |-> <<>>, options |-> <<>>,
   config |-> [Port |-> DefaultPort, ProjectID |-> "proj",
               DatabaseID |-> DefaultFirestoreDatabaseID],
   err |-> NoErr, returned |-> Ptr("config")]

NoCall == [op |-> "none"]
NoResult == [code |-> "none"]

Init ==
  /\ store = [c \in {propertyCollection, categoryCollection, transactionCollection} |->
                IF c = propertyCollection THEN SeedProperties
                ELSE IF c = categoryCollection THEN SeedCategories
                ELSE SeedTransactions]
  /\ clock = ClockStart
  /\ nextID = 1
  /\ served = 0
  /\ pc = [p \in Procs |-> "idle"]
  /\ call = [p \in Procs |-> NoCall]
  /\ ent = [p \in Procs |-> NoEntity]
  /\ fetched = [p \in Procs |-> NoEntity]
  /\ ports = [p \in Procs |-> {}]
  /\ result = [p \in Procs |-> NoResult]
  /\ fault = NoErr
  /\ boot = Booted

----------------------------------------------------------------------------
(* Firestore *)

\* the precision a stored timestamp keeps
Trunc(t) == t - (t % TimeGranule)

\* docRef.Set: the document as the collection holds it afterwards
Stored(doc) ==
  LET d1 == [doc EXCEPT !.CreatedAt = Trunc(@), !.UpdatedAt = Trunc(@)]
  IN IF "TransactionDate" \in DOMAIN doc
       THEN [d1 EXCEPT !.TransactionDate = Trunc(@)]
       ELSE d1

\* (variant: the write creates a document and leaves an existing one alone)
PutCreateOnly(coll, doc) ==
  IF doc.ID \in DOMAIN store[coll] THEN store[coll]
  ELSE [id \in DOMAIN store[coll] \cup {doc.ID} |->
          IF id = doc.ID THEN Stored(doc) ELSE store[coll][id]]

Put(coll, doc) ==
  [id \in DOMAIN store[coll] \cup {doc.ID} |->
     IF id = doc.ID THEN Stored(doc) ELSE store[coll][id]]

Remove(coll, id) ==
  [x \in DOMAIN store[coll] \ {id} |-> store[coll][x]]

----------------------------------------------------------------------------
(* apierrors *)

ErrBadRequest == [code |-> CodeBadRequest, details |-> {}, cause |-> NoErr]
ErrValidation(fields) == [code |-> CodeValidationError, details |-> fields, cause |-> NoErr]
ErrNotFound == [code |-> CodeNotFound, details |-> {}, cause |-> NoErr]
ErrConflict == [code |-> CodeConflict, details |-> {}, cause |-> NoErr]
ErrInternal(err) == [code |-> CodeInternalError, details |-> {}, cause |-> err]
Success(resp) == [code |-> CodeNone, details |-> {}, cause |-> NoErr, entity |-> resp]

\* Error.Message as ErrInternal builds it: the text of err is printed into it
InternalMessage(err) ==
  IF err = NoErr THEN <<"An unexpected internal error occurred.">>
  ELSE <<"An unexpected internal error occurred: ", err>>

\* the JSON body handleError writes for an Internal error: the exported fields
\* of Error (cause is not exported)
InternalBody(e) ==
  [code |-> e.code, message |-> InternalMessage(e.cause), details |-> e.details]

\* uuid.Parse(id) succeeds
uuidParse(id) == id \in UUIDs

\* (variant: the repository's own not-found sentinel is recognised as well)
IsNoRowsOrNotFound(err) == err \in {ErrNoRows, ErrCategoryNotFound}

\* errors.Is(err, sql.ErrNoRows)
IsNoRows(err) == err = ErrNoRows

----------------------------------------------------------------------------
(* What every service method does around its steps *)

\* the transport hands a request to a service method
Accept(p) ==
  /\ pc[p] = "idle"
  /\ served < MaxRequests
  /\ served' = served + 1
  /\ fault' = fault
  /\ boot' = boot

\* a method that returns in this step
Return(p, c, e, f, used, res) ==
  /\ pc' = [pc EXCEPT ![p] = "done"]
  /\ call' = [call EXCEPT ![p] = c]
  /\ ent' = [ent EXCEPT ![p] = e]
  /\ fetched' = [fetched EXCEPT ![p] = f]
  /\ ports' = [ports EXCEPT ![p] = used]
  /\ result' = [result EXCEPT ![p] = res]

\* a method that goes on to another round trip
Goto(p, label, c, e, f, used) ==
  /\ pc' = [pc EXCEPT ![p] = label]
  /\ call' = [call EXCEPT ![p] = c]
  /\ ent' = [ent EXCEPT ![p] = e]
  /\ fetched' = [fetched EXCEPT ![p] = f]
  /\ ports' = [ports EXCEPT ![p] = used]
  /\ result' = [result EXCEPT ![p] = NoResult]

----------------------------------------------------------------------------
(* properties: repository_firestore.go, dto.go, service *)

PropertyRepoGetByID(id) ==
  IF id = "" THEN [err |-> ErrEmptyPropertyID, entity |-> NoEntity]
  ELSE IF fault # NoErr THEN [err |-> fault, entity |-> NoEntity]
  ELSE IF id \notin DOMAIN store[propertyCollection]
    THEN [err |-> ErrPropertyNotFound, entity |-> NoEntity]
  ELSE [err |-> NoErr, entity |-> [store[propertyCollection][id] EXCEPT !.ID = id]]

\* repo.Create fills the time stamps only when they are unset
RepoCreateStamp(entity, now) ==
  [entity EXCEPT !.CreatedAt = IF @ = ZeroTime THEN now ELSE @,
                 !.UpdatedAt = IF @ = ZeroTime THEN now ELSE @]

\* repo.Update always stamps UpdatedAt itself
RepoUpdateStamp(entity, now) == [entity EXCEPT !.UpdatedAt = now]

PropertyToEntity(req) ==
  [ID |-> "", Name |-> req.Name, Address |-> req.Address,
   CreatedAt |-> ZeroTime, UpdatedAt |-> ZeroTime]

ToPropertyResponse(property) ==
  [ID |-> property.ID, Name |-> property.Name, Address |-> property.Address,
   CreatedAt |-> property.CreatedAt, UpdatedAt |-> property.UpdatedAt]

\* CreateProperty up to the repository call: id and time stamps
NewProperty(req, id, now) ==
  [PropertyToEntity(req) EXCEPT !.ID = id, !.CreatedAt = now, !.UpdatedAt = now]

\* (variant: the updated flag is raised whatever the request holds)
MergePropertyTouch(property, req) == [entity |-> property, updated |-> TRUE]

\* the merge of UpdateProperty: the entity afterwards and the updated flag
MergeProperty(property, req) ==
  LET setName == req.Name # NilPtr /\ Deref(req.Name) # "" /\ Deref(req.Name) # property.Name
      p1 == IF setName THEN [property EXCEPT !.Name = Deref(req.Name)] ELSE property
      setAddress == /\ req.Address # NilPtr
                    /\ (property.Address = NilPtr \/ Deref(req.Address) # Deref(property.Address))
      p2 == IF setAddress THEN [p1 EXCEPT !.Address = req.Address] ELSE p1
  IN [entity |-> p2, updated |-> setName \/ setAddress]

CreateProperty(p, req) ==
  LET c == [op |-> "CreateProperty", id |-> "", req |-> req]
      property == NewProperty(req, FreshIds[nextID], clock)
  IN /\ Accept(p)
     /\ nextID <= Len(FreshIds)
     /\ nextID' = nextID + 1
     /\ clock' = clock + 2
     /\ Goto(p, "set", c, RepoCreateStamp(property, clock + 1), NoEntity, {"Create"})
     /\ UNCHANGED store

GetPropertyByID(p, id) ==
  LET c == [op |-> "GetPropertyByID", id |-> id, req |-> NoEntity]
      got == PropertyRepoGetByID(id)
  IN /\ Accept(p)
     /\ IF ~uuidParse(id)
          THEN Return(p, c, NoEntity, NoEntity, {}, ErrBadRequest)
        ELSE IF got.err # NoErr
          THEN Return(p, c, NoEntity, NoEntity, {"GetByID"}, ErrNotFound)
        ELSE Return(p, c, got.entity, got.entity, {"GetByID"},
                    Success(ToPropertyResponse(got.entity)))
     /\ UNCHANGED <<store, clock, nextID>>

UpdateProperty(p, id, req) ==
  LET c == [op |-> "UpdateProperty", id |-> id, req |-> req]
      got == PropertyRepoGetByID(id)
      m == MergeProperty(got.entity, req)
  IN /\ Accept(p)
     /\ IF ~uuidParse(id)
          THEN /\ Return(p, c, NoEntity, NoEntity, {}, ErrBadRequest)
               /\ UNCHANGED clock
        ELSE IF got.err # NoErr
          THEN /\ Return(p, c, NoEntity, NoEntity, {"GetByID"}, ErrNotFound)
               /\ UNCHANGED clock
        ELSE IF m.updated
          THEN /\ clock' = clock + 2
               /\ Goto(p, "set", c,
                       RepoUpdateStamp([m.entity EXCEPT !.UpdatedAt = clock], clock + 1),
                       got.entity, {"GetByID", "Update"})
        ELSE /\ Return(p, c, m.entity, got.entity, {"GetByID"},
                       Success(ToPropertyResponse(m.entity)))
             /\ UNCHANGED clock
     /\ UNCHANGED <<store, nextID>>

DeleteProperty(p, id) ==
  LET c == [op |-> "DeleteProperty", id |-> id, req |-> NoEntity]
      got == PropertyRepoGetByID(id)
  IN /\ Accept(p)
     /\ IF ~uuidParse(id)
          THEN Return(p, c, NoEntity, NoEntity, {}, ErrBadRequest)
        ELSE IF got.err # NoErr
          THEN Return(p, c, NoEntity, NoEntity, {"GetByID"}, ErrNotFound)
        ELSE Goto(p, "delete", c, got.entity, got.entity, {"GetByID", "Delete"})
     /\ UNCHANGED <<store, clock, nextID>>

----------------------------------------------------------------------------
(* categories: repository (FirestoreCategoryRepository), dto.go, service.go *)

CategoryRepoGetByID(id) ==
  IF id = "" THEN [err |-> ErrEmptyCategoryID, entity |-> NoEntity]
  ELSE IF fault # NoErr THEN [err |-> fault, entity |-> NoEntity]
  ELSE IF id \notin DOMAIN store[categoryCollection]
    THEN [err |-> ErrCategoryNotFound, entity |-> NoEntity]
  ELSE [err |-> NoErr, entity |-> [store[categoryCollection][id] EXCEPT !.ID = id]]

\* Where Name == name, Where Classification == classification, Limit(1)
FindByNameAndClassification(name, classification) ==
  LET matches == {id \in DOMAIN store[categoryCollection] :
                    /\ store[categoryCollection][id].Name = name
                    /\ store[categoryCollection][id].Classification = classification}
      first == CHOOSE id \in matches : TRUE
  IN IF name = "" THEN [err |-> ErrFindEmptyName, entity |-> NoEntity]
     ELSE IF classification = "" THEN [err |-> ErrFindEmptyClassification, entity |-> NoEntity]
     ELSE IF fault # NoErr THEN [err |-> fault, entity |-> NoEntity]
     ELSE IF matches = {} THEN [err |-> ErrCategoryNotFound, entity |-> NoEntity]
     ELSE [err |-> NoErr, entity |-> [store[categoryCollection][first] EXCEPT !.ID = first]]

CategoryToEntity(req) ==
  [ID |-> "", Name |-> req.Name, Classification |-> req.Classification,
   CreatedAt |-> ZeroTime, UpdatedAt |-> ZeroTime]

ToCategoryResponse(cat) ==
  [ID |-> cat.ID, Name |-> cat.Name, Classification |-> cat.Classification,
   CreatedAt |-> cat.CreatedAt, UpdatedAt |-> cat.UpdatedAt]

NewCategory(req, id, now) ==
  [CategoryToEntity(req) EXCEPT !.ID = id, !.CreatedAt = now, !.UpdatedAt = now]

ValidClassification(c) == c \in {IncomeClassification, ExpenseClassification}

\* the merge of UpdateCategory: the entity afterwards, the updated flag, and
\* whether it returned the classification Validation error
MergeCategory(category, req) ==
  LET setName == req.Name # NilPtr /\ Deref(req.Name) # "" /\ Deref(req.Name) # category.Name
      c1 == IF setName THEN [category EXCEPT !.Name = Deref(req.Name)] ELSE category
      setClass == /\ req.Classification # NilPtr
                  /\ Deref(req.Classification) # ""
                  /\ Deref(req.Classification) # category.Classification
      invalid == setClass /\ ~ValidClassification(Deref(req.Classification))
      c2 == IF setClass /\ ~invalid
              THEN [c1 EXCEPT !.Classification = Deref(req.Classification)] ELSE c1
  IN [entity |-> c2, updated |-> setName \/ setClass, invalid |-> invalid]

\* how the category service classifies an error of repo.GetByID
CategoryLookupError(err) ==
  IF IsNoRows(err) THEN ErrNotFound ELSE ErrInternal(err)

CreateCategory(p, req) ==
  LET c == [op |-> "CreateCategory", id |-> "", req |-> req]
      existing == FindByNameAndClassification(req.Name, req.Classification)
      category == NewCategory(req, FreshIds[nextID], clock)
  IN /\ Accept(p)
     /\ IF req.Name = ""
          THEN /\ Return(p, c, NoEntity, NoEntity, {}, ErrValidation({"name"}))
               /\ UNCHANGED <<clock, nextID>>
        ELSE IF ~ValidClassification(req.Classification)
          THEN /\ Return(p, c, NoEntity, NoEntity, {}, ErrValidation({"classification"}))
               /\ UNCHANGED <<clock, nextID>>
        ELSE IF existing.err # NoErr /\ ~IsNoRows(existing.err)
          THEN /\ Return(p, c, NoEntity, NoEntity, {"FindByNameAndClassification"},
                         ErrInternal(existing.err))
               /\ UNCHANGED <<clock, nextID>>
        ELSE IF existing.entity # NoEntity
          THEN /\ Return(p, c, NoEntity, existing.entity, {"FindByNameAndClassification"},
                         ErrConflict)
               /\ UNCHANGED <<clock, nextID>>
        ELSE /\ nextID <= Len(FreshIds)
             /\ nextID' = nextID + 1
             /\ clock' = clock + 2
             /\ Goto(p, "set", c, RepoCreateStamp(category, clock + 1), NoEntity,
                     {"FindByNameAndClassification", "Create"})
     /\ UNCHANGED store

GetCategoryByID(p, id) ==
  LET c == [op |-> "GetCategoryByID", id |-> id, req |-> NoEntity]
      got == CategoryRepoGetByID(id)
  IN /\ Accept(p)
     /\ IF ~uuidParse(id)
          THEN Return(p, c, NoEntity, NoEntity, {}, ErrBadRequest)
        ELSE IF got.err # NoErr
          THEN Return(p, c, NoEntity, NoEntity, {"GetByID"}, CategoryLookupError(got.err))
        ELSE Return(p, c, got.entity, got.entity, {"GetByID"},
                    Success(ToCategoryResponse(got.entity)))
     /\ UNCHANGED <<store, clock, nextID>>

UpdateCategory(p, id, req) ==
  LET c == [op |-> "UpdateCategory", id |-> id, req |-> req]
      got == CategoryRepoGetByID(id)
      m == MergeCategory(got.entity, req)
      changed == \/ m.entity.Name # got.entity.Name
                 \/ m.entity.Classification # got.entity.Classification
  IN /\ Accept(p)
     /\ IF ~uuidParse(id)
          THEN /\ Return(p, c, NoEntity, NoEntity, {}, ErrBadRequest)
               /\ UNCHANGED clock
        ELSE IF got.err # NoErr
          THEN /\ Return(p, c, NoEntity, NoEntity, {"GetByID"}, CategoryLookupError(got.err))
               /\ UNCHANGED clock
        ELSE IF m.invalid
          THEN /\ Return(p, c, m.entity, got.entity, {"GetByID"},
                         ErrValidation({"classification"}))
               /\ UNCHANGED clock
        ELSE IF m.updated /\ changed
          THEN /\ Goto(p, "unique", c, m.entity, got.entity, {"GetByID"})
               /\ UNCHANGED clock
        ELSE IF m.updated
          THEN /\ clock' = clock + 2
               /\ Goto(p, "set", c,
                       RepoUpdateStamp([m.entity EXCEPT !.UpdatedAt = clock], clock + 1),
                       got.entity, {"GetByID", "Update"})
        ELSE /\ Return(p, c, m.entity, got.entity, {"GetByID"},
                       Success(ToCategoryResponse(m.entity)))
             /\ UNCHANGED clock
     /\ UNCHANGED <<store, nextID>>

\* (variant: the merged category is written before the uniqueness lookup is
\* evaluated, so that a Conflict leaves the new pair behind)
UpdateCategoryUniqueAfterWrite(p) ==
  LET existing == FindByNameAndClassification(ent[p].Name, ent[p].Classification)
      used == ports[p] \cup {"FindByNameAndClassification"}
  IN /\ pc[p] = "unique"
     /\ IF existing.err # NoErr /\ ~IsNoRows(existing.err)
          THEN /\ Return(p, call[p], ent[p], fetched[p], used, ErrInternal(existing.err))
               /\ UNCHANGED <<clock, store>>
        ELSE IF existing.entity # NoEntity /\ existing.entity.ID # call[p].id
          THEN /\ Return(p, call[p], ent[p], fetched[p], used, ErrConflict)
               /\ store' = [store EXCEPT ![categoryCollection] =
                                            Put(categoryCollection, ent[p])]
               /\ UNCHANGED clock
        ELSE /\ clock' = clock + 2
             /\ Goto(p, "set", call[p],
                     RepoUpdateStamp([ent[p] EXCEPT !.UpdatedAt = clock], clock + 1),
                     fetched[p], used \cup {"Update"})
             /\ UNCHANGED store
     /\ UNCHANGED <<nextID, served, fault, boot>>

\* the uniqueness lookup of UpdateCategory and what follows it
UpdateCategoryUnique(p) ==
  LET existing == FindByNameAndClassification(ent[p].Name, ent[p].Classification)
      used == ports[p] \cup {"FindByNameAndClassification"}
  IN /\ pc[p] = "unique"
     /\ IF existing.err # NoErr /\ ~IsNoRows(existing.err)
          THEN /\ Return(p, call[p], ent[p], fetched[p], used, ErrInternal(existing.err))
               /\ UNCHANGED clock
        ELSE IF existing.entity # NoEntity /\ existing.entity.ID # call[p].id
          THEN /\ Return(p, call[p], ent[p], fetched[p], used, ErrConflict)
               /\ UNCHANGED clock
        ELSE /\ clock' = clock + 2
             /\ Goto(p, "set", call[p],
                     RepoUpdateStamp([ent[p] EXCEPT !.UpdatedAt = clock], clock + 1),
                     fetched[p], used \cup {"Update"})
     /\ UNCHANGED <<store, nextID, served, fault, boot>>

\* (variant: a category that transactions refer to is refused with Conflict)
DeleteCategoryInUse(p, id) ==
  LET c == [op |-> "DeleteCategory", id |-> id, req |-> NoEntity]
      got == CategoryRepoGetByID(id)
      inUse == \E t \in DOMAIN store[transactionCollection] :
                 store[transactionCollection][t].CategoryID = id
  IN /\ Accept(p)
     /\ IF ~uuidParse(id)
          THEN Return(p, c, NoEntity, NoEntity, {}, ErrBadRequest)
        ELSE IF got.err # NoErr
          THEN Return(p, c, NoEntity, NoEntity, {"GetByID"}, CategoryLookupError(got.err))
        ELSE IF inUse
          THEN Return(p, c, got.entity, got.entity, {"GetByID"}, ErrConflict)
        ELSE Goto(p, "delete", c, got.entity, got.entity, {"GetByID", "Delete"})
     /\ UNCHANGED <<store, clock, nextID>>

DeleteCategory(p, id) ==
  LET c == [op |-> "DeleteCategory", id |-> id, req |-> NoEntity]
      got == CategoryRepoGetByID(id)
  IN /\ Accept(p)
     /\ IF ~uuidParse(id)
          THEN Return(p, c, NoEntity, NoEntity, {}, ErrBadRequest)
        ELSE IF got.err # NoErr
          THEN Return(p, c, NoEntity, NoEntity, {"GetByID"}, CategoryLookupError(got.err))
        ELSE Goto(p, "delete", c, got.entity, got.entity, {"GetByID", "Delete"})
     /\ UNCHANGED <<store, clock, nextID>>

----------------------------------------------------------------------------
(* transactions: repository_firestore.go, dto.go, service *)

TransactionRepoGetByID(id) ==
  IF id = "" THEN [err |-> ErrEmptyTransactionID, entity |-> NoEntity]
  ELSE IF fault # NoErr THEN [err |-> fault, entity |-> NoEntity]
  ELSE IF id \notin DOMAIN store[transactionCollection]
    THEN [err |-> ErrTransactionNotFound, entity |-> NoEntity]
  ELSE [err |-> NoErr, entity |-> [store[transactionCollection][id] EXCEPT !.ID = id]]

TransactionToEntity(req) ==
  [ID |-> "", Amount |-> req.Amount, TransactionDate |-> req.TransactionDate,
   Description |-> req.Description, Type |-> req.Type, CategoryID |-> req.CategoryID,
   PropertyID |-> req.PropertyID, CreatedAt |-> ZeroTime, UpdatedAt |-> ZeroTime]

ToTransactionResponse(t) ==
  [ID |-> t.ID, Amount |-> t.Amount, TransactionDate |-> t.TransactionDate,
   Description |-> t.Description, Type |-> t.Type, CategoryID |-> t.CategoryID,
   PropertyID |-> t.PropertyID, CreatedAt |-> t.CreatedAt, UpdatedAt |-> t.UpdatedAt]

NewTransaction(req, id, now) ==
  [TransactionToEntity(req) EXCEPT !.ID = id, !.CreatedAt = now, !.UpdatedAt = now]

\* (variant: the expense half of the comparison is missing)
TypeMismatchIncomeOnly(type, classification) ==
  type = IncomeTransaction /\ classification # IncomeClassification

\* the type / classification comparison of CreateTransaction and UpdateTransaction
TypeMismatch(type, classification) ==
  \/ (type = IncomeTransaction /\ classification # IncomeClassification)
  \/ (type = ExpenseTransaction /\ classification # ExpenseClassification)

\* (variant: the category is looked up but its classification is not compared)
CategoryCheckExistenceOnly(categoryID, type) ==
  IF CategoryRepoGetByID(categoryID).err # NoErr THEN ErrValidation({"categoryId"})
  ELSE NoResult

\* (variant: a category that cannot be fetched is not an obstacle)
CategoryCheckIfFound(categoryID, type) ==
  LET got == CategoryRepoGetByID(categoryID)
  IN IF got.err # NoErr THEN NoResult
     ELSE IF TypeMismatch(type, got.entity.Classification) THEN ErrValidation({"type"})
     ELSE NoResult

\* the category lookup and cross-check both methods run: the error they return,
\* or NoResult when the transaction may be written
CategoryCheck(categoryID, type) ==
  LET got == CategoryRepoGetByID(categoryID)
  IN IF got.err # NoErr THEN ErrValidation({"categoryId"})
     ELSE IF TypeMismatch(type, got.entity.Classification) THEN ErrValidation({"type"})
     ELSE NoResult

\* (variant: the optional PropertyID is copied from the request even when the
\* request leaves it out)
MergeTransactionClearing(transaction, req) ==
  LET setAmount == req.Amount # NilPtr /\ Deref(req.Amount) # transaction.Amount
      t1 == IF setAmount THEN [transaction EXCEPT !.Amount = Deref(req.Amount)]
            ELSE transaction
  IN [entity |-> [t1 EXCEPT !.PropertyID = req.PropertyID], updated |-> setAmount]

\* (variant: only a new category triggers the re-validation)
RevalidatesCategoryOnly(req) == req.CategoryID # NilPtr

\* UpdateTransaction re-validates when the request carries a category or a type
Revalidates(req) == req.CategoryID # NilPtr \/ req.Type # NilPtr

\* the merge of UpdateTransaction: the entity afterwards and the updated flag
MergeTransaction(transaction, req) ==
  LET setAmount == req.Amount # NilPtr /\ Deref(req.Amount) # transaction.Amount
      t1 == IF setAmount THEN [transaction EXCEPT !.Amount = Deref(req.Amount)]
            ELSE transaction
      setDate == /\ req.TransactionDate # NilPtr
                 /\ Deref(req.TransactionDate) # ZeroTime
                 /\ Deref(req.TransactionDate) # transaction.TransactionDate
      t2 == IF setDate THEN [t1 EXCEPT !.TransactionDate = Deref(req.TransactionDate)]
            ELSE t1
      setDescription ==
        /\ req.Description # NilPtr
        /\ (transaction.Description = NilPtr
              \/ Deref(req.Description) # Deref(transaction.Description))
      t3 == IF setDescription THEN [t2 EXCEPT !.Description = req.Description] ELSE t2
      setType == req.Type # NilPtr /\ Deref(req.Type) # transaction.Type
      t4 == IF setType THEN [t3 EXCEPT !.Type = Deref(req.Type)] ELSE t3
      setCategory == req.CategoryID # NilPtr /\ Deref(req.CategoryID) # transaction.CategoryID
      t5 == IF setCategory THEN [t4 EXCEPT !.CategoryID = Deref(req.CategoryID)] ELSE t4
      setProperty ==
        /\ req.PropertyID # NilPtr
        /\ (transaction.PropertyID = NilPtr
              \/ Deref(req.PropertyID) # Deref(transaction.PropertyID))
      t6 == IF setProperty THEN [t5 EXCEPT !.PropertyID = req.PropertyID] ELSE t5
  IN [entity |-> t6,
      updated |-> setAmount \/ setDate \/ setDescription \/ setType \/ setCategory
                    \/ setProperty]

CreateTransaction(p, req) ==
  LET c == [op |-> "CreateTransaction", id |-> "", req |-> req]
      failed == CategoryCheck(req.CategoryID, req.Type)
      transaction == NewTransaction(req, FreshIds[nextID], clock)
  IN /\ Accept(p)
     /\ IF failed # NoResult
          THEN /\ Return(p, c, NoEntity, NoEntity, {"categoryRepo.GetByID"}, failed)
               /\ UNCHANGED <<clock, nextID>>
        ELSE /\ nextID <= Len(FreshIds)
             /\ nextID' = nextID + 1
             /\ clock' = clock + 2
             /\ Goto(p, "set", c, RepoCreateStamp(transaction, clock + 1), NoEntity,
                     {"categoryRepo.GetByID", "Create"})
     /\ UNCHANGED store

GetTransactionByID(p, id) ==
  LET c == [op |-> "GetTransactionByID", id |-> id, req |-> NoEntity]
      got == TransactionRepoGetByID(id)
  IN /\ Accept(p)
     /\ IF ~uuidParse(id)
          THEN Return(p, c, NoEntity, NoEntity, {}, ErrBadRequest)
        ELSE IF got.err # NoErr
          THEN Return(p, c, NoEntity, NoEntity, {"GetByID"}, ErrNotFound)
        ELSE Return(p, c, got.entity, got.entity, {"GetByID"},
                    Success(ToTransactionResponse(got.entity)))
     /\ UNCHANGED <<store, clock, nextID>>

UpdateTransaction(p, id, req) ==
  LET c == [op |-> "UpdateTransaction", id |-> id, req |-> req]
      got == TransactionRepoGetByID(id)
      m == MergeTransaction(got.entity, req)
  IN /\ Accept(p)
     /\ IF ~uuidParse(id)
          THEN /\ Return(p, c, NoEntity, NoEntity, {}, ErrBadRequest)
               /\ UNCHANGED clock
        ELSE IF got.err # NoErr
          THEN /\ Return(p, c, NoEntity, NoEntity, {"GetByID"}, ErrNotFound)
               /\ UNCHANGED clock
        ELSE IF m.updated /\ Revalidates(req)
          THEN /\ Goto(p, "validate", c, m.entity, got.entity, {"GetByID"})
               /\ UNCHANGED clock
        ELSE IF m.updated
          THEN /\ clock' = clock + 2
               /\ Goto(p, "set", c,
                       RepoUpdateStamp([m.entity EXCEPT !.UpdatedAt = clock], clock + 1),
                       got.entity, {"GetByID", "Update"})
        ELSE /\ Return(p, c, m.entity, got.entity, {"GetByID"},
                       Success(ToTransactionResponse(m.entity)))
             /\ UNCHANGED clock
     /\ UNCHANGED <<store, nextID>>

\* the re-validation of UpdateTransaction and what follows it
UpdateTransactionValidate(p) ==
  LET failed == CategoryCheck(ent[p].CategoryID, ent[p].Type)
      used == ports[p] \cup {"categoryRepo.GetByID"}
  IN /\ pc[p] = "validate"
     /\ IF failed # NoResult
          THEN /\ Return(p, call[p], ent[p], fetched[p], used, failed)
               /\ UNCHANGED clock
        ELSE /\ clock' = clock + 2
             /\ Goto(p, "set", call[p],
                     RepoUpdateStamp([ent[p] EXCEPT !.UpdatedAt = clock], clock + 1),
                     fetched[p], used \cup {"Update"})
     /\ UNCHANGED <<store, nextID, served, fault, boot>>

DeleteTransaction(p, id) ==
  LET c == [op |-> "DeleteTransaction", id |-> id, req |-> NoEntity]
      got == TransactionRepoGetByID(id)
  IN /\ Accept(p)
     /\ IF ~uuidParse(id)
          THEN Return(p, c, NoEntity, NoEntity, {}, ErrBadRequest)
        ELSE IF got.err # NoErr
          THEN Return(p, c, NoEntity, NoEntity, {"GetByID"}, ErrNotFound)
        ELSE Goto(p, "delete", c, got.entity, got.entity, {"GetByID", "Delete"})
     /\ UNCHANGED <<store, clock, nextID>>

----------------------------------------------------------------------------
(* The round trips that change a collection *)

CollectionOf(op) ==
  IF op \in {"CreateProperty", "UpdateProperty", "DeleteProperty"} THEN propertyCollection
  ELSE IF op \in {"CreateCategory", "UpdateCategory", "DeleteCategory"} THEN categoryCollection
  ELSE transactionCollection

\* the response DTO the method builds from the entity it holds
ToResponse(op, entity) ==
  IF CollectionOf(op) = propertyCollection THEN ToPropertyResponse(entity)
  ELSE IF CollectionOf(op) = categoryCollection THEN ToCategoryResponse(entity)
  ELSE ToTransactionResponse(entity)

\* docRef.Set in repo.Create / repo.Update: the error the repository returns
\* and the collection afterwards.  Set creates the document when the
\* collection does not hold it, so it never answers NotFound.
RepoSet(coll, doc) ==
  IF fault # NoErr THEN [err |-> fault, docs |-> store[coll]]
  ELSE [err |-> NoErr, docs |-> Put(coll, doc)]

\* (variant: deleting a document the collection does not hold is an error)
RepoDeleteStrict(coll, id) ==
  IF fault # NoErr THEN [err |-> fault, docs |-> store[coll]]
  ELSE IF id \notin DOMAIN store[coll] THEN [err |-> ErrPropertyNotFound, docs |-> store[coll]]
  ELSE [err |-> NoErr, docs |-> Remove(coll, id)]

\* docRef.Delete in repo.Delete: the error the repository returns and the
\* collection afterwards.  Delete of a missing document succeeds.
RepoDelete(coll, id) ==
  IF fault # NoErr THEN [err |-> fault, docs |-> store[coll]]
  ELSE [err |-> NoErr, docs |-> Remove(coll, id)]

\* repo.Create / repo.Update returns; the service returns the entity it holds,
\* or Internal when the repository returned an error
DocSet(p) ==
  LET coll == CollectionOf(call[p].op)
      set == RepoSet(coll, ent[p])
  IN /\ pc[p] = "set"
     /\ store' = [store EXCEPT ![coll] = set.docs]
     /\ pc' = [pc EXCEPT ![p] = "done"]
     /\ result' = [result EXCEPT ![p] =
                     IF set.err # NoErr THEN ErrInternal(set.err)
                     ELSE Success(ToResponse(call[p].op, ent[p]))]
     /\ UNCHANGED <<clock, nextID, served, call, ent, fetched, ports, fault, boot>>

\* repo.Delete returns; the service returns nil, or Internal when the
\* repository returned an error
DocDelete(p) ==
  LET coll == CollectionOf(call[p].op)
      del == RepoDelete(coll, call[p].id)
  IN /\ pc[p] = "delete"
     /\ store' = [store EXCEPT ![coll] = del.docs]
     /\ pc' = [pc EXCEPT ![p] = "done"]
     /\ result' = [result EXCEPT ![p] =
                     IF del.err # NoErr THEN ErrInternal(del.err)
                     ELSE Success(NoEntity)]
     /\ UNCHANGED <<clock, nextID, served, call, ent, fetched, ports, fault, boot>>

\* the handler has written the response; the goroutine is gone
Respond(p) ==
  /\ pc[p] = "done"
  /\ pc' = [pc EXCEPT ![p] = "idle"]
  /\ call' = [call EXCEPT ![p] = NoCall]
  /\ ent' = [ent EXCEPT ![p] = NoEntity]
  /\ fetched' = [fetched EXCEPT ![p] = NoEntity]
  /\ ports' = [ports EXCEPT ![p] = {}]
  /\ result' = [result EXCEPT ![p] = NoResult]
  /\ UNCHANGED <<store, clock, nextID, served, fault, boot>>

\* time passes between two requests: time.Now() is finer than what Firestore
\* keeps of a timestamp
Tick ==
  /\ clock < ClockStart + TimeGranule
  /\ clock' = clock + 1
  /\ UNCHANGED <<store, nextID, served, pc, call, ent, fetched, ports, result, fault, boot>>

\* Firestore stops answering (with error f), or answers again (f = NoErr)
Outage(f) ==
  /\ f # fault
  /\ fault' = f
  /\ UNCHANGED <<store, clock, nextID, served, pc, call, ent, fetched, ports, result, boot>>

----------------------------------------------------------------------------
(* List: the services' paging and the repositories' queries.  repo.List makes
   two round trips: the filtered query read whole to count it, then the same
   query ordered and cut to the page. *)

defaultServicePageSize == 20
maxServicePageSize == 100
defaultServicePageNum == 1

\* Go's int is 32 or 64 bits wide, as GOARCH has it.  This is the int of a
\* 32-bit build, whose values TLC's integers hold; on a 64-bit build the same
\* arithmetic wraps at 2^63.
HalfWord == 65536
MaxInt == 2147483647
MinInt == (0 - MaxInt) - 1

\* a * b in int arithmetic (two's complement, wrapping), for 0 <= b < HalfWord,
\* computed on the two half words of a
IntMul(a, b) ==
  LET lo == a % HalfWord
      hi == (a \div HalfWord) % HalfWord
      p0 == lo * b
      r0 == p0 % HalfWord
      p1 == hi * b + (p0 \div HalfWord)
      r1 == p1 % HalfWord
  IN IF r1 >= HalfWord \div 2 THEN (r1 - HalfWord) * HalfWord + r0
     ELSE r1 * HalfWord + r0

\* (variant: another default page size)
NormalizeOtherDefault(page, pageSize) ==
  LET pg == IF page <= 0 THEN defaultServicePageNum ELSE page
      sz == IF pageSize <= 0 THEN defaultServicePageSize \div 2
            ELSE IF pageSize > maxServicePageSize THEN maxServicePageSize
            ELSE pageSize
  IN [page |-> pg, pageSize |-> sz, offset |-> IntMul(pg - 1, sz)]

\* page and pageSize as the service hands them to repo.List
Normalize(page, pageSize) ==
  LET pg == IF page <= 0 THEN defaultServicePageNum ELSE page
      sz0 == IF pageSize <= 0 THEN defaultServicePageSize ELSE pageSize
      sz == IF sz0 > maxServicePageSize THEN maxServicePageSize ELSE sz0
  IN [page |-> pg, pageSize |-> sz, offset |-> IntMul(pg - 1, sz)]

\* (variant: integer division, which rounds down)
TotalPagesFloor(totalItems, pageSize) ==
  IF totalItems > 0 THEN totalItems \div pageSize ELSE 0

\* int(math.Ceil(float64(totalItems) / float64(pageSize))), 0 for no items
TotalPages(totalItems, pageSize) ==
  IF totalItems > 0
    THEN (totalItems \div pageSize) + (IF totalItems % pageSize = 0 THEN 0 ELSE 1)
    ELSE 0

\* a filter the repository applies: the pointer is set and not to ""
Supplied(ptr) == ptr # NilPtr /\ Deref(ptr) # ""

NoFilter ==
  [PropertyID |-> NilPtr, Type |-> NilPtr, CategoryID |-> NilPtr,
   StartDate |-> NilPtr, EndDate |-> NilPtr, Classification |-> NilPtr]

CategoryQuery(filter) ==
  {id \in DOMAIN store[categoryCollection] :
     Supplied(filter.Classification)
       => store[categoryCollection][id].Classification = Deref(filter.Classification)}

\* (variant: the end of the date range is exclusive)
TransactionQueryExclusiveEnd(filter) ==
  {id \in DOMAIN store[transactionCollection] :
     LET t == store[transactionCollection][id]
     IN /\ Supplied(filter.PropertyID)
             => (t.PropertyID # NilPtr /\ t.PropertyID = filter.PropertyID)
        /\ Supplied(filter.Type) => t.Type = Deref(filter.Type)
        /\ Supplied(filter.CategoryID) => t.CategoryID = Deref(filter.CategoryID)
        /\ filter.StartDate # NilPtr => t.TransactionDate >= Deref(filter.StartDate)
        /\ filter.EndDate # NilPtr => t.TransactionDate < Deref(filter.EndDate)}

\* the Where clauses of FirestoreTransactionRepository.List
TransactionQuery(filter) ==
  {id \in DOMAIN store[transactionCollection] :
     LET t == store[transactionCollection][id]
     IN /\ Supplied(filter.PropertyID)
             => (t.PropertyID # NilPtr /\ t.PropertyID = filter.PropertyID)
        /\ Supplied(filter.Type) => t.Type = Deref(filter.Type)
        /\ Supplied(filter.CategoryID) => t.CategoryID = Deref(filter.CategoryID)
        /\ filter.StartDate # NilPtr => t.TransactionDate >= Deref(filter.StartDate)
        /\ filter.EndDate # NilPtr => t.TransactionDate <= Deref(filter.EndDate)}

\* the documents the query of a List method selects
Query(op, filter) ==
  IF op = "ListProperties" THEN DOMAIN store[propertyCollection]
  ELSE IF op = "ListCategories" THEN CategoryQuery(filter)
  ELSE TransactionQuery(filter)

\* the order of strings (names, document ids) as Firestore compares them
NameOrder == <<"", " ", "Flat", "Food", "House", "Rent">>
IdOrder ==
  <<"c1", "c2", "c3", "n1", "n2", "n3", "n4", "n5", "p1", "p2",
    "t1", "t2", "t3", "t4", "u0">>
Rank(order, v) == CHOOSE i \in DOMAIN order : order[i] = v

\* OrderBy("Name", Asc); equal names come in document id order
NameBefore(coll, x, y) ==
  LET a == Rank(NameOrder, store[coll][x].Name)
      b == Rank(NameOrder, store[coll][y].Name)
  IN a < b \/ (a = b /\ Rank(IdOrder, x) < Rank(IdOrder, y))

\* OrderBy("TransactionDate", Desc).OrderBy("CreatedAt", Desc); what is equal
\* in both comes in descending document id order
TransactionBefore(x, y) ==
  LET a == store[transactionCollection][x]
      b == store[transactionCollection][y]
  IN \/ a.TransactionDate > b.TransactionDate
     \/ /\ a.TransactionDate = b.TransactionDate
        /\ \/ a.CreatedAt > b.CreatedAt
           \/ (a.CreatedAt = b.CreatedAt /\ Rank(IdOrder, x) > Rank(IdOrder, y))

Before(op, x, y) ==
  IF op = "ListProperties" THEN NameBefore(propertyCollection, x, y)
  ELSE IF op = "ListCategories" THEN NameBefore(categoryCollection, x, y)
  ELSE TransactionBefore(x, y)

RECURSIVE Ordered(_, _)
Ordered(op, ids) ==
  IF ids = {} THEN <<>>
  ELSE LET first == CHOOSE x \in ids : \A y \in ids \ {x} : Before(op, x, y)
       IN <<first>> \o Ordered(op, ids \ {first})

ListCollection(op) ==
  IF op = "ListProperties" THEN propertyCollection
  ELSE IF op = "ListCategories" THEN categoryCollection
  ELSE transactionCollection

\* (variant: the documents are counted after Limit and Offset are applied)
RepoCountOfPage(op, filter, limit, offset) ==
  LET n == Cardinality(Query(op, filter))
      last == IF offset + limit < n THEN offset + limit ELSE n
  IN IF last > offset THEN last - offset ELSE 0

\* the first round trip of repo.List: len(docs) of the filtered query
RepoCount(op, filter, limit, offset) == Cardinality(Query(op, filter))

\* the second round trip of repo.List: the ordered query, Limit(limit),
\* Offset(offset), each document with its id, as response DTOs
RepoPage(op, filter, limit, offset) ==
  LET all == Ordered(op, Query(op, filter))
      last == IF offset + limit < Len(all) THEN offset + limit ELSE Len(all)
      ids == SubSeq(all, offset + 1, last)
  IN [i \in 1..Len(ids) |->
        LET doc == [store[ListCollection(op)][ids[i]] EXCEPT !.ID = ids[i]]
        IN IF op = "ListProperties" THEN ToPropertyResponse(doc)
           ELSE IF op = "ListCategories" THEN ToCategoryResponse(doc)
           ELSE ToTransactionResponse(doc)]

\* the Paginated...Response a List method returns
ListSuccess(data, page, pageSize, totalItems) ==
  [code |-> CodeNone, details |-> {}, cause |-> NoErr, data |-> data,
   pagination |-> [TotalItems |-> totalItems,
                   TotalPages |-> TotalPages(totalItems, pageSize),
                   CurrentPage |-> page,
                   PageSize |-> pageSize]]

\* a List method up to the answer of the count query
List(p, op, filter, page, pageSize) ==
  LET c == [op |-> op, id |-> "",
            req |-> [filter |-> filter, page |-> page, pageSize |-> pageSize]]
      n == Normalize(page, pageSize)
      paging == [limit |-> n.pageSize, offset |-> n.offset, page |-> n.page,
                 totalItems |-> RepoCount(op, filter, n.pageSize, n.offset)]
  IN /\ Accept(p)
     /\ IF fault # NoErr
          THEN Return(p, c, NoEntity, NoEntity, {"List"}, ErrInternal(fault))
          ELSE Goto(p, "page", c, paging, NoEntity, {"List"})
     /\ UNCHANGED <<store, clock, nextID>>

ListProperties(p, page, pageSize) == List(p, "ListProperties", NoFilter, page, pageSize)

ListCategories(p, classification, page, pageSize) ==
  List(p, "ListCategories", [NoFilter EXCEPT !.Classification = classification],
       page, pageSize)

ListTransactions(p, filter, page, pageSize) ==
  List(p, "ListTransactions", filter, page, pageSize)

\* the page query returns and the method builds its response; Firestore
\* refuses a query whose offset is negative
ListPage(p) ==
  LET got == ent[p]
      data == RepoPage(call[p].op, call[p].req.filter, got.limit, got.offset)
  IN /\ pc[p] = "page"
     /\ pc' = [pc EXCEPT ![p] = "done"]
     /\ result' = [result EXCEPT ![p] =
                     IF fault # NoErr THEN ErrInternal(fault)
                     ELSE IF got.offset < 0 THEN ErrInternal(ErrInvalidArgument)
                     ELSE ListSuccess(data, got.page, got.limit, got.totalItems)]
     /\ UNCHANGED <<store, clock, nextID, served, call, ent, fetched, ports, fault, boot>>

----------------------------------------------------------------------------
(* The store ports called directly: repo.List of the three feature
   repositories, and GetProperties of the older repositories package (the one
   List that checks its limit).  The services never pass a limit outside
   1..maxServicePageSize, so only another caller of the port does. *)

ErrInvalidLimit == "limit must be between 1 and 100"
MaxPageSize == 100

\* what a store port returns: the error, the records, the count
PortResult(err, data, totalItems) ==
  [code |-> "port", err |-> err, data |-> data, totalItems |-> totalItems]

\* repo.List up to the answer of the count query; it makes no check of limit
\* or offset before it
RepoList(p, op, filter, limit, offset) ==
  LET c == [op |-> "repo.List", id |-> "",
            req |-> [of |-> op, filter |-> filter, limit |-> limit, offset |-> offset]]
      paging == [limit |-> limit, offset |-> offset, page |-> 0,
                 totalItems |-> RepoCount(op, filter, limit, offset)]
  IN /\ Accept(p)
     /\ IF fault # NoErr
          THEN Return(p, c, NoEntity, NoEntity, {"List"}, PortResult(fault, <<>>, 0))
          ELSE Goto(p, "portpage", c, paging, NoEntity, {"List"})
     /\ UNCHANGED <<store, clock, nextID>>

\* the page query of repo.List returns.  Firestore cuts the result to the
\* limit it is given; a limit below 1 it either refuses or answers with no
\* document.
RepoListPage(p) ==
  LET got == ent[p]
      data == RepoPage(call[p].req.of, call[p].req.filter, got.limit, got.offset)
  IN /\ pc[p] = "portpage"
     /\ pc' = [pc EXCEPT ![p] = "done"]
     /\ \E refusal \in {NoErr, ErrInvalidArgument} :
          /\ (got.limit >= 1 => refusal = NoErr)
          /\ (got.limit < 0 => refusal = ErrInvalidArgument)
          /\ result' = [result EXCEPT ![p] =
                          IF fault # NoErr THEN PortResult(fault, <<>>, 0)
                          ELSE IF refusal # NoErr THEN PortResult(refusal, <<>>, 0)
                          ELSE PortResult(NoErr, data, got.totalItems)]
     /\ UNCHANGED <<store, clock, nextID, served, call, ent, fetched, ports, fault, boot>>

\* the first limit documents of the collection in document id order
FirstProperties(limit) ==
  LET held(id) == id \in DOMAIN store[propertyCollection]
      all == SelectSeq(IdOrder, held)
      last == IF limit < Len(all) THEN limit ELSE Len(all)
  IN [i \in 1..last |-> [store[propertyCollection][all[i]] EXCEPT !.ID = all[i]]]

\* GetProperties of the older repository, called without a cursor
GetProperties(p, limit) ==
  LET c == [op |-> "repo.GetProperties", id |-> "",
            req |-> [of |-> "GetProperties", filter |-> NoFilter, limit |-> limit,
                     offset |-> 0]]
  IN /\ Accept(p)
     /\ IF limit < 1 \/ limit > MaxPageSize
          THEN Return(p, c, NoEntity, NoEntity, {"GetProperties"},
                      PortResult(ErrInvalidLimit, <<>>, 0))
        ELSE IF fault # NoErr
          THEN Return(p, c, NoEntity, NoEntity, {"GetProperties"},
                      PortResult(fault, <<>>, 0))
        ELSE Return(p, c, NoEntity, NoEntity, {"GetProperties"},
                    PortResult(NoErr, FirstProperties(limit), 0))
     /\ UNCHANGED <<store, clock, nextID>>

----------------------------------------------------------------------------
(* config: New and its options.  A string is the sequence of its characters,
   so that strconv.Atoi is computed on what it is given. *)

\* options handed to one call of config.New
MaxOptions == 3

Digits == <<"0", "1", "2", "3", "4", "5", "6", "7", "8", "9">>

IsDigit(ch) == \E i \in DOMAIN Digits : Digits[i] = ch

DigitValue(ch) == (CHOOSE i \in DOMAIN Digits : Digits[i] = ch) - 1

\* the value of a sequence of digits, most significant first
RECURSIVE Decimal(_)
Decimal(ds) ==
  IF ds = <<>> THEN 0
  ELSE 10 * Decimal(SubSeq(ds, 1, Len(ds) - 1)) + DigitValue(ds[Len(ds)])

\* strconv.Atoi: an optional sign, then one or more digits
Atoi(str) ==
  LET signed == str # <<>> /\ str[1] \in {"+", "-"}
      ds == IF signed THEN Tail(str) ELSE str
  IN IF ds = <<>> \/ \E i \in DOMAIN ds : ~IsDigit(ds[i])
       THEN [err |-> ErrSyntax, value |-> 0]
     ELSE [err |-> NoErr,
           value |-> IF signed /\ str[1] = "-" THEN 0 - Decimal(ds) ELSE Decimal(ds)]

\* (variant: the upper end of the range is not checked)
WithPortNoUpperBound(port, c) ==
  LET parsed == Atoi(port)
  IN IF port = <<>> THEN [err |-> NoErr, config |-> c]
     ELSE IF parsed.err # NoErr THEN [err |-> parsed.err, config |-> c]
     ELSE IF parsed.value = 0 THEN [err |-> NoErr, config |-> c]
     ELSE IF parsed.value < MinPort THEN [err |-> ErrPortOutOfRange, config |-> c]
     ELSE [err |-> NoErr, config |-> [c EXCEPT !.Port = parsed.value]]

\* the Option WithPort(port) applied to the Config c: its error and the Config
\* afterwards
WithPort(port, c) ==
  LET parsed == Atoi(port)
  IN IF port = <<>> THEN [err |-> NoErr, config |-> c]
     ELSE IF parsed.err # NoErr THEN [err |-> parsed.err, config |-> c]
     ELSE IF parsed.value = 0 THEN [err |-> NoErr, config |-> c]
     ELSE IF parsed.value < MinPort \/ parsed.value > MaxPort
       THEN [err |-> ErrPortOutOfRange, config |-> c]
     ELSE [err |-> NoErr, config |-> [c EXCEPT !.Port = parsed.value]]

WithGoogleCloudProject(project, c) ==
  IF project = "" THEN [err |-> ErrEmptyGoogleCloudProject, config |-> c]
  ELSE [err |-> NoErr, config |-> [c EXCEPT !.ProjectID = project]]

WithFirestoreDatabase(databaseID, c) ==
  IF databaseID = "" THEN [err |-> NoErr, config |-> c]
  ELSE [err |-> NoErr, config |-> [c EXCEPT !.DatabaseID = databaseID]]

\* option(config)
ApplyTo(option, c) ==
  IF option.kind = "WithPort" THEN WithPort(option.arg, c)
  ELSE IF option.kind = "WithGoogleCloudProject" THEN WithGoogleCloudProject(option.arg, c)
  ELSE WithFirestoreDatabase(option.arg, c)

FrozenServices ==
  UNCHANGED <<store, clock, nextID, served, pc, call, ent, fetched, ports, result, fault>>

\* New allocates the Config with its defaults
New ==
  /\ boot.pc = "new"
  /\ boot' = [boot EXCEPT !.pc = "loop",
                          !.config = [Port |-> DefaultPort, ProjectID |-> "",
                                      DatabaseID |-> DefaultFirestoreDatabaseID]]
  /\ FrozenServices

\* one turn of the loop over the options: an option that fails ends New, which
\* returns nil and the wrapped error
ApplyOption ==
  LET applied == ApplyTo(Head(boot.options), boot.config)
  IN /\ boot.pc = "loop"
     /\ boot.options # <<>>
     /\ boot' = IF applied.err # NoErr
                  THEN [boot EXCEPT !.pc = "returned", !.config = applied.config,
                                    !.err = applied.err, !.returned = NilPtr]
                  ELSE [boot EXCEPT !.config = applied.config,
                                    !.options = Tail(boot.options)]
     /\ FrozenServices

\* every option was applied: New returns the Config
NewReturns ==
  /\ boot.pc = "loop"
  /\ boot.options = <<>>
  /\ boot' = [boot EXCEPT !.pc = "returned", !.returned = Ptr("config")]
  /\ FrozenServices

----------------------------------------------------------------------------
(* Requests.  Every call of an Update method is a pair <<id, request>>; a
   request sent to an id that is absent or malformed is one fixed request,
   since the method returns before it reads the request. *)

Opt(S) == {NilPtr} \cup {Ptr(v) : v \in S}

One(S) == {CHOOSE r \in S : TRUE}

\* one request at a time, every combination of request fields
Serial ==
  [getProperty |-> {"p1", "n1", AbsentId, MalformedId},
   getCategory |-> {"c1", "n1", AbsentId, MalformedId},
   getTransaction |-> {"t1", "n1", AbsentId, MalformedId},
   createProperty |-> [Name : {"Flat", "House"}, Address : Opt({"A"})],
   updateProperty |->
     LET all == [Name : Opt({"", "Flat", "House"}), Address : Opt({"", "A"})]
     IN ({"p1", "n1"} \X all) \cup ({AbsentId, MalformedId} \X One(all)),
   createCategory |->
     [Name : {"", "Rent", "Food"},
      Classification : {IncomeClassification, ExpenseClassification, "other"}],
   updateCategory |->
     LET all == [Name : Opt({"", "Rent", "Food"}),
                 Classification : Opt({IncomeClassification, ExpenseClassification, "other"})]
     IN ({"c1"} \X all) \cup ({AbsentId, MalformedId} \X One(all)),
   createTransaction |->
     [Amount : {2}, TransactionDate : {SeedTime}, Description : {NilPtr},
      Type : {IncomeTransaction, ExpenseTransaction},
      CategoryID : {"c1", "c2", AbsentId}, PropertyID : Opt({"p1"})],
   updateTransaction |->
     LET all == [Amount : Opt({2}),
                 TransactionDate : Opt({ZeroTime, SeedTime + TimeGranule}),
                 Description : Opt({"d"}),
                 Type : Opt({IncomeTransaction, ExpenseTransaction}),
                 CategoryID : Opt({"c1", "c2"}),
                 PropertyID : Opt({"p1"})]
         few == {r \in all : r.TransactionDate = NilPtr /\ r.PropertyID = NilPtr
                               /\ r.CategoryID = NilPtr}
     IN ({"t1"} \X all) \cup ({"t2", "n1"} \X few)
          \cup ({AbsentId, MalformedId} \X One(all))]

\* concurrent requests, a few requests per method
Concurrent ==
  [getProperty |-> {"p1", AbsentId},
   getCategory |-> {"c1", AbsentId},
   getTransaction |-> {"t1", AbsentId},
   createProperty |-> [Name : {"House"}, Address : {NilPtr}],
   updateProperty |->
     {"p1"} \X {[Name |-> Ptr("House"), Address |-> NilPtr],
                [Name |-> NilPtr, Address |-> Ptr("A")],
                [Name |-> NilPtr, Address |-> NilPtr]},
   createCategory |-> [Name : {"Food"}, Classification : {IncomeClassification}],
   updateCategory |->
     {"c1"} \X {[Name |-> Ptr("Food"), Classification |-> NilPtr],
                [Name |-> NilPtr, Classification |-> Ptr(ExpenseClassification)]},
   createTransaction |->
     [Amount : {2}, TransactionDate : {SeedTime}, Description : {NilPtr},
      Type : {IncomeTransaction, ExpenseTransaction},
      CategoryID : {"c1"}, PropertyID : {NilPtr}],
   updateTransaction |->
     {"t1"} \X {[Amount |-> Ptr(2), TransactionDate |-> NilPtr, Description |-> NilPtr,
                 Type |-> NilPtr, CategoryID |-> NilPtr, PropertyID |-> NilPtr],
                [Amount |-> NilPtr, TransactionDate |-> NilPtr, Description |-> Ptr("d"),
                 Type |-> NilPtr, CategoryID |-> NilPtr, PropertyID |-> NilPtr],
                [Amount |-> NilPtr, TransactionDate |-> NilPtr, Description |-> NilPtr,
                 Type |-> Ptr(ExpenseTransaction), CategoryID |-> Ptr("c2"),
                 PropertyID |-> NilPtr],
                [Amount |-> NilPtr, TransactionDate |-> NilPtr, Description |-> NilPtr,
                 Type |-> Ptr(ExpenseTransaction), CategoryID |-> NilPtr,
                 PropertyID |-> NilPtr]}]

----------------------------------------------------------------------------
\* a request arrives at one of the service methods
Calls(p, R) ==
  \/ \E req \in R.createProperty : CreateProperty(p, req)
  \/ \E id \in R.getProperty : GetPropertyByID(p, id)
  \/ \E c \in R.updateProperty : UpdateProperty(p, c[1], c[2])
  \/ \E id \in R.getProperty : DeleteProperty(p, id)
  \/ \E req \in R.createCategory : CreateCategory(p, req)
  \/ \E id \in R.getCategory : GetCategoryByID(p, id)
  \/ \E c \in R.updateCategory : UpdateCategory(p, c[1], c[2])
  \/ \E id \in R.getCategory : DeleteCategory(p, id)
  \/ \E req \in R.createTransaction : CreateTransaction(p, req)
  \/ \E id \in R.getTransaction : GetTransactionByID(p, id)
  \/ \E c \in R.updateTransaction : UpdateTransaction(p, c[1], c[2])
  \/ \E id \in R.getTransaction : DeleteTransaction(p, id)

\* a method in flight makes its next round trip, or its response is written
Steps(p) ==
  \/ UpdateCategoryUnique(p)
  \/ UpdateTransactionValidate(p)
  \/ DocSet(p)
  \/ DocDelete(p)
  \/ Respond(p)

\* requests served one after the other
Next == \E p \in {"a"} : Calls(p, Serial) \/ Steps(p)

Spec == Init /\ [][Next]_vars

\* requests served concurrently, as gin serves them
ConcNext == \E p \in Procs : Calls(p, Concurrent) \/ Steps(p)

ConcSpec == Init /\ [][ConcNext]_vars

\* requests at the edges of the contract: blank names, a zero amount (the
\* service is handed them when it is called directly; the transport's
\* validate tags stop "" and 0 but let a name of blanks through)
Edge ==
  [getProperty |-> {"p1", AbsentId},
   getCategory |-> {"c1", AbsentId},
   getTransaction |-> {"t1", AbsentId},
   createProperty |-> [Name : {"", " ", "House"}, Address : {NilPtr}],
   updateProperty |->
     {"p1"} \X {[Name |-> Ptr("House"), Address |-> NilPtr],
                [Name |-> NilPtr, Address |-> NilPtr]},
   createCategory |->
     [Name : {"", "Food"}, Classification : {IncomeClassification, "other"}],
   updateCategory |->
     {"c1"} \X {[Name |-> Ptr("Food"), Classification |-> NilPtr]},
   createTransaction |->
     [Amount : {0, 2}, TransactionDate : {SeedTime}, Description : {NilPtr},
      Type : {IncomeTransaction}, CategoryID : {"c1"}, PropertyID : {NilPtr}],
   updateTransaction |->
     {"t1"} \X {[Amount |-> Ptr(2), TransactionDate |-> NilPtr, Description |-> NilPtr,
                 Type |-> NilPtr, CategoryID |-> NilPtr, PropertyID |-> NilPtr],
                [Amount |-> NilPtr, TransactionDate |-> NilPtr, Description |-> NilPtr,
                 Type |-> Ptr(IncomeTransaction), CategoryID |-> Ptr("c2"),
                 PropertyID |-> NilPtr]}]

\* requests served one after the other while Firestore comes and goes
EdgeNext ==
  \/ \E p \in {"a"} : Calls(p, Edge) \/ Steps(p)
  \/ \E f \in Faults \cup {NoErr} : Outage(f)

EdgeSpec == Init /\ [][EdgeNext]_vars

\* a database with more to list: names and dates that repeat, transactions
\* with and without a property
ListedProperties ==
  [id \in {"p1", "p2"} |->
     IF id = "p1" THEN SeedProperties["p1"]
     ELSE [ID |-> "p2", Name |-> "Flat", Address |-> Ptr("A"),
           CreatedAt |-> SeedTime, UpdatedAt |-> SeedTime]]

ListedCategories ==
  [id \in {"c1", "c2", "c3"} |->
     IF id \in DOMAIN SeedCategories THEN SeedCategories[id]
     ELSE [ID |-> "c3", Name |-> "Food", Classification |-> ExpenseClassification,
           CreatedAt |-> SeedTime, UpdatedAt |-> SeedTime]]

ListedTransactions ==
  [id \in {"t1", "t2", "t3", "t4"} |->
     IF id \in DOMAIN SeedTransactions THEN SeedTransactions[id]
     ELSE IF id = "t3"
       THEN [ID |-> "t3", Amount |-> 1, TransactionDate |-> SeedTime,
             Description |-> NilPtr, Type |-> ExpenseTransaction,
             CategoryID |-> "c2", PropertyID |-> Ptr("p1"),
             CreatedAt |-> SeedTime + TimeGranule, UpdatedAt |-> SeedTime + TimeGranule]
     ELSE [ID |-> "t4", Amount |-> 1, TransactionDate |-> SeedTime + TimeGranule,
           Description |-> NilPtr, Type |-> ExpenseTransaction,
           CategoryID |-> "c3", PropertyID |-> Ptr("p1"),
           CreatedAt |-> SeedTime, UpdatedAt |-> SeedTime]]

ListInit ==
  /\ store = [c \in {propertyCollection, categoryCollection, transactionCollection} |->
                IF c = propertyCollection THEN ListedProperties
                ELSE IF c = categoryCollection THEN ListedCategories
                ELSE ListedTransactions]
  /\ clock = ClockStart + TimeGranule
  /\ nextID = 1
  /\ served = 0
  /\ pc = [p \in Procs |-> "idle"]
  /\ call = [p \in Procs |-> NoCall]
  /\ ent = [p \in Procs |-> NoEntity]
  /\ fetched = [p \in Procs |-> NoEntity]
  /\ ports = [p \in Procs |-> {}]
  /\ result = [p \in Procs |-> NoResult]
  /\ fault = NoErr
  /\ boot = Booted

Pages == {0 - 1, 0, 1, 2, 3}
PageSizes ==
  {0 - 1, 0, 1, 2, 3, defaultServicePageSize, maxServicePageSize,
   maxServicePageSize + 1, 5 * maxServicePageSize}

\* a few requests that change what there is to list, and the List requests:
\* every page and page size without a filter, every filter with a few pages
Listing ==
  [getProperty |-> {"p1"},
   getCategory |-> {"c1"},
   getTransaction |-> {"t1"},
   createProperty |-> [Name : {"Flat"}, Address : {NilPtr}],
   updateProperty |-> {"p1"} \X {[Name |-> Ptr("House"), Address |-> NilPtr]},
   createCategory |-> [Name : {"Food"}, Classification : {IncomeClassification}],
   updateCategory |-> {"c1"} \X {[Name |-> Ptr("Food"), Classification |-> NilPtr]},
   createTransaction |->
     [Amount : {2}, TransactionDate : {SeedTime + TimeGranule}, Description : {NilPtr},
      Type : {ExpenseTransaction}, CategoryID : {"c2"}, PropertyID : {Ptr("p1")}],
   updateTransaction |->
     {"t1"} \X {[Amount |-> NilPtr, TransactionDate |-> NilPtr, Description |-> NilPtr,
                 Type |-> Ptr(ExpenseTransaction), CategoryID |-> Ptr("c2"),
                 PropertyID |-> Ptr("p1")]},
   listProperties |-> Pages \X PageSizes,
   listCategories |->
     Opt({"", IncomeClassification, ExpenseClassification}) \X Pages \X PageSizes,
   listTransactions |->
     LET filters == [PropertyID : Opt({"", "p1"}),
                     Type : Opt({IncomeTransaction, ExpenseTransaction}),
                     CategoryID : Opt({"c2"}),
                     StartDate : Opt({SeedTime, SeedTime + 1}),
                     EndDate : Opt({SeedTime, SeedTime + TimeGranule}),
                     Classification : {NilPtr}]
     IN ({NoFilter} \X Pages \X PageSizes)
          \cup (filters \X {1, 2} \X {1, 2, defaultServicePageSize})]

ListCalls(p, R) ==
  \/ \E c \in R.listProperties : ListProperties(p, c[1], c[2])
  \/ \E c \in R.listCategories : ListCategories(p, c[1], c[2], c[3])
  \/ \E c \in R.listTransactions : ListTransactions(p, c[1], c[2], c[3])

\* requests served one after the other, List requests among them
ListNext ==
  \E p \in {"a"} : Calls(p, Listing) \/ ListCalls(p, Listing) \/ Steps(p) \/ ListPage(p)

ListSpec == ListInit /\ [][ListNext]_vars

\* List requests served while other requests create and delete what they list
Racing ==
  [getProperty |-> {"p1"},
   getCategory |-> {"c3"},
   getTransaction |-> {"t1"},
   createProperty |-> [Name : {"Flat"}, Address : {NilPtr}],
   updateProperty |-> {"p1"} \X {[Name |-> Ptr("House"), Address |-> NilPtr]},
   createCategory |-> [Name : {"Food"}, Classification : {IncomeClassification}],
   updateCategory |-> {"c1"} \X {[Name |-> Ptr("Food"), Classification |-> NilPtr]},
   createTransaction |->
     [Amount : {2}, TransactionDate : {SeedTime + TimeGranule}, Description : {NilPtr},
      Type : {ExpenseTransaction}, CategoryID : {"c2"}, PropertyID : {Ptr("p1")}],
   updateTransaction |->
     {"t1"} \X {[Amount |-> NilPtr, TransactionDate |-> NilPtr, Description |-> NilPtr,
                 Type |-> Ptr(ExpenseTransaction), CategoryID |-> Ptr("c2"),
                 PropertyID |-> Ptr("p1")]},
   listProperties |-> {1, 2} \X {1, 2, defaultServicePageSize},
   listCategories |-> {NilPtr} \X {1, 2} \X {2, defaultServicePageSize},
   listTransactions |-> {NoFilter} \X {1, 2} \X {2, defaultServicePageSize}]

\* requests served concurrently, List requests among them
RaceNext ==
  \E p \in Procs : Calls(p, Racing) \/ ListCalls(p, Racing) \/ Steps(p) \/ ListPage(p)

RaceSpec == ListInit /\ [][RaceNext]_vars

\* the limits and offsets a caller of the port may pass
Limits == {0 - 1, 0, 1, 2, MaxPageSize, MaxPageSize + 1}
Offsets == {0, 1}

PortCalls(p) ==
  \/ \E op \in {"ListProperties", "ListCategories", "ListTransactions"} :
       \E limit \in Limits : \E offset \in Offsets :
         RepoList(p, op, NoFilter, limit, offset)
  \/ \E limit \in Limits : GetProperties(p, limit)

\* requests served one after the other, and the store ports called directly
PortNext ==
  \E p \in {"a"} :
    Calls(p, Listing) \/ PortCalls(p) \/ Steps(p) \/ RepoListPage(p)

PortSpec == ListInit /\ [][PortNext]_vars

\* the values of PORT, GOOGLE_CLOUD_PROJECT and DATABASE_ID
PortStrings ==
  {<<>>, <<"0">>, <<"-", "0">>, <<"0", "0">>, <<"8", "0">>, <<"-", "1">>,
   <<"1", "0", "2", "3">>, <<"1", "0", "2", "4">>, <<"9", "0", "0", "0">>,
   <<"+", "9", "0", "0", "1">>, <<"6", "5", "5", "3", "5">>,
   <<"6", "5", "5", "3", "6">>, <<"x">>, <<"8", "0", "8", "0", "x">>}

Options ==
  [kind : {"WithPort"}, arg : PortStrings]
    \cup [kind : {"WithGoogleCloudProject"}, arg : {"", "proj"}]
    \cup [kind : {"WithFirestoreDatabase"}, arg : {"", "db"}]

OptionLists == UNION {[1..n -> Options] : n \in 0..MaxOptions}

\* config.New is called with some options; no request is served meanwhile
ConfigInit ==
  /\ store = [c \in {propertyCollection, categoryCollection, transactionCollection} |->
                IF c = propertyCollection THEN SeedProperties
                ELSE IF c = categoryCollection THEN SeedCategories
                ELSE SeedTransactions]
  /\ clock = ClockStart
  /\ nextID = 1
  /\ served = 0
  /\ pc = [p \in Procs |-> "idle"]
  /\ call = [p \in Procs |-> NoCall]
  /\ ent = [p \in Procs |-> NoEntity]
  /\ fetched = [p \in Procs |-> NoEntity]
  /\ ports = [p \in Procs |-> {}]
  /\ result = [p \in Procs |-> NoResult]
  /\ fault = NoErr
  /\ \E options \in OptionLists :
       boot = [pc |-> "new", given |-> options, options |-> options,
               config |-> NoEntity, err |-> NoErr, returned |-> NilPtr]

ConfigNext == New \/ ApplyOption \/ NewReturns

ConfigSpec == ConfigInit /\ [][ConfigNext]_vars

\* requests served concurrently while Firestore comes and goes
FaultNext ==
  \/ \E p \in Procs : Calls(p, Concurrent) \/ Steps(p)
  \/ \E f \in Faults \cup {NoErr} : Outage(f)

FaultSpec == Init /\ [][FaultNext]_vars

\* pages and page sizes up to the ends of int
WidePages == {MinInt, 0 - 1, 0, 1, 2, MaxInt \div maxServicePageSize, MaxInt}
WidePageSizes ==
  {MinInt, 0, 1, 3, defaultServicePageSize, maxServicePageSize, maxServicePageSize + 1,
   MaxInt}

Wide ==
  [Listing EXCEPT
     !.listProperties = WidePages \X WidePageSizes,
     !.listCategories = {NilPtr} \X WidePages \X WidePageSizes,
     !.listTransactions = {NoFilter} \X WidePages \X WidePageSizes]

\* requests served one after the other, List requests for any page among them
WideNext ==
  \E p \in {"a"} : Calls(p, Wide) \/ ListCalls(p, Wide) \/ Steps(p) \/ ListPage(p)

WideSpec == ListInit /\ [][WideNext]_vars

\* a Create of each kind with dates of either precision, and reads of what
\* was created
RoundTrip ==
  [getProperty |-> {"p1", "n1"},
   getCategory |-> {"c1", "n1"},
   getTransaction |-> {"t1", "n1"},
   createProperty |-> [Name : {"House"}, Address : Opt({"A"})],
   updateProperty |-> {"p1"} \X {[Name |-> Ptr("House"), Address |-> NilPtr]},
   createCategory |-> [Name : {"Food"}, Classification : {IncomeClassification}],
   updateCategory |-> {"c1"} \X {[Name |-> Ptr("Food"), Classification |-> NilPtr]},
   createTransaction |->
     [Amount : {2}, TransactionDate : {SeedTime, SeedTime + 1}, Description : Opt({"d"}),
      Type : {IncomeTransaction}, CategoryID : {"c1"}, PropertyID : Opt({"p1"})],
   updateTransaction |->
     {"t1"} \X {[Amount |-> Ptr(2), TransactionDate |-> NilPtr, Description |-> NilPtr,
                 Type |-> NilPtr, CategoryID |-> NilPtr, PropertyID |-> NilPtr],
                [Amount |-> NilPtr, TransactionDate |-> NilPtr, Description |-> NilPtr,
                 Type |-> Ptr(ExpenseTransaction), CategoryID |-> Ptr("c2"),
                 PropertyID |-> NilPtr]}]

\* requests served one after the other, at any time of the clock
TimeNext == (\E p \in {"a"} : Calls(p, RoundTrip) \/ Steps(p)) \/ Tick

TimeSpec == Init /\ [][TimeNext]_vars

----------------------------------------------------------------------------
(* Vocabulary of the properties *)

Properties == store[propertyCollection]
Categories == store[categoryCollection]
Transactions == store[transactionCollection]

CreateOps == {"CreateProperty", "CreateCategory", "CreateTransaction"}
GetOps == {"GetPropertyByID", "GetCategoryByID", "GetTransactionByID"}
UpdateOps == {"UpdateProperty", "UpdateCategory", "UpdateTransaction"}
DeleteOps == {"DeleteProperty", "DeleteCategory", "DeleteTransaction"}

\* the collection a method works on
Collection(op) ==
  IF op \in {"CreateProperty", "GetPropertyByID", "UpdateProperty", "DeleteProperty"}
    THEN propertyCollection
  ELSE IF op \in {"CreateCategory", "GetCategoryByID", "UpdateCategory", "DeleteCategory"}
    THEN categoryCollection
  ELSE transactionCollection

\* this step is the transport handing request p to method op
Accepts(p, op) == pc[p] = "idle" /\ pc'[p] # "idle" /\ call'[p].op = op

\* request p has returned from method op
Returned(p, op) == pc[p] = "done" /\ call[p].op = op

\* every optional field of an Update request is nil
EmptyRequest(req) == \A f \in DOMAIN req : req[f] = NilPtr

----------------------------------------------------------------------------
(* C1: CreateTransaction whose categoryID names a stored category and whose
   type differs from that category's classification returns in that step with
   a Validation error that carries a "type" entry; repo.Create is not invoked
   and no collection changes. *)
C1_TypeMismatchRejected ==
  [][\A p \in Procs :
       LET req == call'[p].req
       IN (/\ Accepts(p, "CreateTransaction")
           /\ req.CategoryID \in DOMAIN Categories
           /\ req.Type # Categories[req.CategoryID].Classification)
          => /\ pc'[p] = "done"
             /\ result'[p].code = CodeValidationError
             /\ "type" \in result'[p].details
             /\ "Create" \notin ports'[p]
             /\ store' = store]_vars

C1_Witness ==
  \E p \in Procs :
    /\ Returned(p, "CreateTransaction")
    /\ call[p].req.CategoryID \in DOMAIN Categories
    /\ call[p].req.Type # Categories[call[p].req.CategoryID].Classification
    /\ result[p].code = CodeValidationError

(* C2: in every reachable state, whatever the interleaving of the requests,
   a stored transaction whose CategoryID names a stored category has the type
   that equals the category's classification. *)
C2_TypeMatchesClassification ==
  \A t \in DOMAIN Transactions :
    Transactions[t].CategoryID \in DOMAIN Categories
      => Transactions[t].Type = Categories[Transactions[t].CategoryID].Classification

\* a transaction was written into category c1 while another request asked to
\* change the classification of c1, and both have returned
C2_Witness ==
  \E p, q \in Procs :
    /\ Returned(p, "UpdateCategory")
    /\ call[p].req.Classification # NilPtr
    /\ pc[q] = "done"
    /\ call[q].op \in {"CreateTransaction", "UpdateTransaction"}
    /\ result[q].code = CodeNone
    /\ result[q].entity.ID \in DOMAIN Transactions
    /\ result[q].entity.CategoryID = call[p].id
    /\ call[p].id \in DOMAIN Categories

(* C3: UpdateTransaction of a stored transaction with a request that carries a
   type and/or a categoryID, where the merged type differs from the
   classification of the merged (stored) category: the call never reaches the
   write, it returns a Validation error, repo.Update is not invoked and the
   stored record equals the record the call read. *)
C3_MismatchedUpdateRejected ==
  \A p \in Procs :
    (call[p].op = "UpdateTransaction" /\ fetched[p] # NoEntity) =>
      LET req == call[p].req
          mergedType == IF req.Type # NilPtr THEN Deref(req.Type) ELSE fetched[p].Type
          mergedCategory == IF req.CategoryID # NilPtr THEN Deref(req.CategoryID)
                            ELSE fetched[p].CategoryID
      IN (/\ (req.Type # NilPtr \/ req.CategoryID # NilPtr)
          /\ mergedCategory \in DOMAIN Categories
          /\ mergedType # Categories[mergedCategory].Classification)
         => /\ pc[p] \in {"validate", "done"}
            /\ pc[p] = "done" =>
                 /\ result[p].code = CodeValidationError
                 /\ "Update" \notin ports[p]
                 /\ call[p].id \in DOMAIN Transactions
                 /\ Transactions[call[p].id] = fetched[p]

C3_Witness ==
  \E p \in Procs :
    /\ Returned(p, "UpdateTransaction")
    /\ fetched[p] # NoEntity
    /\ call[p].req.Type # NilPtr
    /\ call[p].req.CategoryID = NilPtr
    /\ Deref(call[p].req.Type) # fetched[p].Type
    /\ result[p].code = CodeValidationError
    /\ "type" \in result[p].details

(* C4: a CreateCategory call with a valid request that has returned: when its
   uniqueness lookup found no stored category with the requested
   (name, classification) it succeeded with an assigned id (first and third
   call of the scenario); when the lookup found one it failed with Conflict and
   repo.Create was not invoked (second call). *)
C4_CreateCategoryScenario ==
  \A p \in Procs :
    (/\ Returned(p, "CreateCategory")
     /\ call[p].req.Name # ""
     /\ ValidClassification(call[p].req.Classification))
    => IF fetched[p] = NoEntity
         THEN /\ result[p].code = CodeNone
              /\ result[p].entity.ID # ""
              /\ result[p].entity.ID \in DOMAIN Categories
         ELSE /\ result[p].code = CodeConflict
              /\ "Create" \notin ports[p]

\* the half of C4 the code does deliver: a duplicate is refused with Conflict
C4_DuplicateIsConflict ==
  \A p \in Procs :
    (Returned(p, "CreateCategory") /\ fetched[p] # NoEntity)
    => result[p].code = CodeConflict /\ "Create" \notin ports[p]

(* C5: in every reachable state, whatever the interleaving of CreateCategory
   and UpdateCategory requests, no two stored categories with different ids
   have the same (name, classification). *)
C5_UniqueNameClassification ==
  \A c, d \in DOMAIN Categories :
    (/\ Categories[c].Name = Categories[d].Name
     /\ Categories[c].Classification = Categories[d].Classification)
    => c = d

\* two concurrent CreateCategory requests for the same new pair have both made
\* their uniqueness lookup and returned
C5_Witness ==
  \E p, q \in Procs :
    /\ p # q
    /\ Returned(p, "CreateCategory")
    /\ Returned(q, "CreateCategory")
    /\ call[p].req = call[q].req
    /\ "FindByNameAndClassification" \in ports[p]
    /\ "FindByNameAndClassification" \in ports[q]
    /\ fetched[p] = NoEntity
    /\ fetched[q] = NoEntity

\* request p is a Create with a valid request (for a category: one whose pair
\* is not taken; for a transaction: one whose category is stored and matches)
ValidCreate(p) ==
  \/ /\ call[p].op = "CreateProperty"
     /\ call[p].req.Name # ""
  \/ /\ call[p].op = "CreateCategory"
     /\ call[p].req.Name # ""
     /\ ValidClassification(call[p].req.Classification)
     /\ fetched[p] = NoEntity
  \/ /\ call[p].op = "CreateTransaction"
     /\ "Create" \in ports[p]

(* C6: a Create with a valid request that has returned, returned an entity
   whose ID is not empty and whose CreatedAt equals its UpdatedAt. *)
C6_CreateReturnsStampedEntity ==
  \A p \in Procs :
    (pc[p] = "done" /\ ValidCreate(p))
    => /\ result[p].code = CodeNone
       /\ result[p].entity.ID # ""
       /\ result[p].entity.CreatedAt = result[p].entity.UpdatedAt

\* the part of C6 the code does deliver: the property and transaction services
C6_PropertyAndTransaction ==
  \A p \in Procs :
    (pc[p] = "done" /\ ValidCreate(p) /\ call[p].op # "CreateCategory")
    => /\ result[p].code = CodeNone
       /\ result[p].entity.ID # ""
       /\ result[p].entity.CreatedAt = result[p].entity.UpdatedAt

(* C7: an Update of a stored record whose request has every optional field nil
   returns in that step: repo.Update is not invoked, no collection changes,
   and the entity returned equals the stored record, UpdatedAt included. *)
C7_EmptyUpdateIsNoWrite ==
  [][\A p \in Procs : \A op \in UpdateOps :
       (/\ Accepts(p, op)
        /\ call'[p].id \in DOMAIN store[Collection(op)]
        /\ EmptyRequest(call'[p].req))
       => /\ pc'[p] = "done"
          /\ "Update" \notin ports'[p]
          /\ store' = store
          /\ result'[p].code = CodeNone
          /\ result'[p].entity = store[Collection(op)][call'[p].id]]_vars

\* an Update with every field nil has read a stored record and returned it
C7_Witness ==
  \E p \in Procs : \E op \in UpdateOps :
    /\ Returned(p, op)
    /\ EmptyRequest(call[p].req)
    /\ fetched[p] # NoEntity
    /\ "Update" \notin ports[p]
    /\ result[p].code = CodeNone
    /\ result[p].entity = fetched[p]

(* C8: the write of a successful Update leaves ID, CreatedAt and every field
   whose request value is nil with the value the record had before, and leaves
   every other record alone. *)
C8_UpdateKeepsOmittedFields ==
  [][\A p \in Procs :
       (pc[p] = "set" /\ pc'[p] = "done" /\ call[p].op \in UpdateOps)
       => LET coll == Collection(call[p].op)
              id == call[p].id
              req == call[p].req
          IN /\ id \in DOMAIN store[coll]
             /\ DOMAIN store'[coll] = DOMAIN store[coll]
             /\ \A x \in DOMAIN store[coll] \ {id} : store'[coll][x] = store[coll][x]
             /\ \A c \in DOMAIN store \ {coll} : store'[c] = store[c]
             /\ \A f \in DOMAIN store[coll][id] :
                  (f \in {"ID", "CreatedAt"} \/ (f \in DOMAIN req /\ req[f] = NilPtr))
                  => store'[coll][id][f] = store[coll][id][f]]_vars

\* an UpdateTransaction that left some fields out and an UpdateProperty that
\* did have been written and have returned
C8_Witness ==
  \E p \in Procs :
    /\ Returned(p, "UpdateTransaction")
    /\ "Update" \in ports[p]
    /\ result[p].code = CodeNone
    /\ call[p].req.PropertyID = NilPtr
    /\ fetched[p].PropertyID # NilPtr
    /\ Transactions[call[p].id].PropertyID = fetched[p].PropertyID
    /\ Transactions[call[p].id].UpdatedAt # fetched[p].UpdatedAt

(* C9: DeleteProperty and DeleteCategory with a well-formed id that the
   collection does not hold return NotFound, and repo.Delete is not invoked. *)
C9_DeleteMissingIsNotFound ==
  [][\A p \in Procs : \A op \in {"DeleteProperty", "DeleteCategory"} :
       (/\ Accepts(p, op)
        /\ uuidParse(call'[p].id)
        /\ call'[p].id \notin DOMAIN store[Collection(op)])
       => /\ pc'[p] = "done"
          /\ result'[p].code = CodeNotFound
          /\ "Delete" \notin ports'[p]]_vars

\* the part of C9 the code does deliver: the property service
C9_PropertyOnly ==
  [][\A p \in Procs :
       (/\ Accepts(p, "DeleteProperty")
        /\ uuidParse(call'[p].id)
        /\ call'[p].id \notin DOMAIN Properties)
       => /\ pc'[p] = "done"
          /\ result'[p].code = CodeNotFound
          /\ "Delete" \notin ports'[p]]_vars

\* what C10 asks of one GetByID method
GetByIDContract(p, op) ==
  Accepts(p, op) =>
    /\ pc'[p] = "done"
    /\ IF ~uuidParse(call'[p].id)
         THEN result'[p].code = CodeBadRequest /\ ports'[p] = {}
       ELSE IF call'[p].id \notin DOMAIN store[Collection(op)]
         THEN result'[p].code = CodeNotFound
       ELSE /\ result'[p].code = CodeNone
            /\ result'[p].entity = store[Collection(op)][call'[p].id]

(* C10: GetByID returns BadRequest without touching the store when the id is
   malformed, NotFound when the id is well formed and the collection does not
   hold it, and otherwise a projection equal to the stored record. *)
C10_GetByID ==
  [][\A p \in Procs : \A op \in GetOps : GetByIDContract(p, op)]_vars

\* the part of C10 the code does deliver: the property and transaction services
C10_PropertyAndTransaction ==
  [][\A p \in Procs : \A op \in {"GetPropertyByID", "GetTransactionByID"} :
       GetByIDContract(p, op)]_vars

\* this step made a call to a store port
StoreCalled(p) == pc[p] # "idle" \/ ports'[p] # {}

\* what C11 asks of the methods in ops
StoreFailureContract(ops) ==
  \A p \in Procs :
    (/\ fault # NoErr
     /\ pc[p] # "done"
     /\ pc'[p] = "done"
     /\ call'[p].op \in ops
     /\ StoreCalled(p))
    => result'[p].code = CodeInternalError

(* C11: a GetByID, Update or Delete of any of the three services during which
   a store call fails with an error other than the not-found sentinel
   (unavailable, deadline exceeded, cancelled) returns Internal. *)
C11_StoreFailureIsInternal ==
  [][StoreFailureContract(GetOps \cup UpdateOps \cup DeleteOps)]_vars

\* the part of C11 the code does deliver: the category service
C11_CategoryService ==
  [][StoreFailureContract({"GetCategoryByID", "UpdateCategory", "DeleteCategory"})]_vars

(* C12: when the record was deleted after an Update's existence check, the
   Update's write fails and does not create the record again: the id is absent
   afterwards and the Update does not report success. *)
C12_UpdateAfterDeleteFails ==
  [][\A p \in Procs :
       LET coll == Collection(call[p].op)
       IN (/\ pc[p] = "set"
           /\ pc'[p] = "done"
           /\ call[p].op \in UpdateOps
           /\ call[p].id \notin DOMAIN store[coll])
          => /\ call[p].id \notin DOMAIN store'[coll]
             /\ result'[p].code # CodeNone]_vars

(* C13: the write of an Update overwrites the whole record, whatever was
   written since the Update read it: the Update returns success (never
   Conflict), the stored record is the writer's merged entity, and every field
   its request left nil holds the value the writer read, so that a change an
   earlier writer made to that field is gone. *)
C13_LastWriterWins ==
  [][\A p \in Procs :
       LET coll == Collection(call[p].op)
           id == call[p].id
       IN (pc[p] = "set" /\ pc'[p] = "done" /\ call[p].op \in UpdateOps)
          => /\ result'[p].code = CodeNone
             /\ store'[coll][id] = Stored(ent[p])
             /\ \A f \in DOMAIN call[p].req :
                  call[p].req[f] = NilPtr => store'[coll][id][f] = fetched[p][f]]_vars

\* two Updates of one property read it before either wrote; both succeeded and
\* the name the earlier writer set is gone
C13_Witness ==
  \E p, q \in Procs :
    /\ p # q
    /\ Returned(p, "UpdateProperty")
    /\ Returned(q, "UpdateProperty")
    /\ call[p].id = call[q].id
    /\ fetched[p] = fetched[q]
    /\ "Update" \in ports[p]
    /\ "Update" \in ports[q]
    /\ result[p].code = CodeNone
    /\ result[q].code = CodeNone
    /\ result[p].entity.Name # fetched[p].Name
    /\ Properties[call[p].id].Name = fetched[p].Name
    /\ Properties[call[p].id].Address = result[q].entity.Address

\* a property name that is empty once blanks are trimmed
BlankName(name) == name \in {"", " "}

\* the fields of a Create request that break a required-field invariant
OffendingFields(op, req) ==
  IF op = "CreateProperty" THEN (IF BlankName(req.Name) THEN {"name"} ELSE {})
  ELSE IF op = "CreateCategory"
    THEN (IF req.Name = "" THEN {"name"} ELSE {})
           \cup (IF ValidClassification(req.Classification) THEN {} ELSE {"classification"})
  ELSE (IF req.Amount <= 0 THEN {"amount"} ELSE {})

\* what C18 asks of the Create methods in ops
RequiredFieldContract(ops) ==
  \A p \in Procs : \A op \in ops :
    (Accepts(p, op) /\ OffendingFields(op, call'[p].req) # {})
    => /\ pc'[p] = "done"
       /\ result'[p].code = CodeValidationError
       /\ result'[p].details \cap OffendingFields(op, call'[p].req) # {}
       /\ "Create" \notin ports'[p]

(* C18: a Create whose request breaks a required-field invariant (property
   name empty after trimming; category name empty or classification not
   income/expense; transaction amount <= 0) returns Validation naming an
   offending field and does not call repo.Create. *)
C18_RequiredFields ==
  [][RequiredFieldContract(CreateOps)]_vars

\* the part of C18 the code does deliver: the category service
C18_CategoryService ==
  [][RequiredFieldContract({"CreateCategory"})]_vars

(* C19: DeleteCategory of a stored category goes on to repo.Delete however
   many transactions refer to it, and its delete succeeds, removes that
   category only, and leaves every transaction and property as it was. *)
C19_DeleteCategoryIsPureRemoval ==
  [][\A p \in Procs :
       /\ (Accepts(p, "DeleteCategory") /\ call'[p].id \in DOMAIN Categories)
          => pc'[p] = "delete" /\ "Delete" \in ports'[p] /\ store' = store
       /\ (pc[p] = "delete" /\ pc'[p] = "done" /\ call[p].op = "DeleteCategory")
          => /\ result'[p].code = CodeNone
             /\ store'[transactionCollection] = Transactions
             /\ store'[propertyCollection] = Properties
             /\ DOMAIN store'[categoryCollection] = DOMAIN Categories \ {call[p].id}
             /\ \A c \in DOMAIN store'[categoryCollection] :
                  store'[categoryCollection][c] = Categories[c]]_vars

\* a category has been deleted while a transaction refers to it
C19_Witness ==
  \E p \in Procs :
    /\ Returned(p, "DeleteCategory")
    /\ result[p].code = CodeNone
    /\ "Delete" \in ports[p]
    /\ call[p].id \notin DOMAIN Categories
    /\ \E t \in DOMAIN Transactions : Transactions[t].CategoryID = call[p].id

(* C20: repo.Delete of an id the collection does not hold returns no error and
   leaves every collection as it was, so a second Delete of an id ends in the
   same store and the same success as the first. *)
C20_DeleteIsIdempotent ==
  [][\A p \in Procs :
       (/\ pc[p] = "delete"
        /\ pc'[p] = "done"
        /\ call[p].id # ""
        /\ call[p].id \notin DOMAIN store[Collection(call[p].op)])
       => /\ store' = store
          /\ result'[p].code = CodeNone]_vars

\* two Deletes of one id both passed the existence check; both reached
\* repo.Delete and both succeeded
C20_Witness ==
  \E p, q \in Procs :
    /\ p # q
    /\ pc[p] = "done"
    /\ pc[q] = "done"
    /\ call[p].op \in DeleteOps
    /\ call[q] = call[p]
    /\ "Delete" \in ports[p]
    /\ "Delete" \in ports[q]
    /\ result[p].code = CodeNone
    /\ result[q].code = CodeNone
    /\ call[p].id \notin DOMAIN store[Collection(call[p].op)]

ListOps == {"ListProperties", "ListCategories", "ListTransactions"}

\* request p has returned from a List method with a page
Listed(p) == pc[p] = "done" /\ call[p].op \in ListOps /\ result[p].code = CodeNone

\* what a List method returns for these arguments on the present store
ListAnswer(op, filter, page, pageSize) ==
  LET n == Normalize(page, pageSize)
  IN ListSuccess(RepoPage(op, filter, n.pageSize, n.offset), n.page, n.pageSize,
                 RepoCount(op, filter, n.pageSize, n.offset))

(* C14: a List called with page <= 0 and pageSize <= 0 hands limit 20 and
   offset 0 to repo.List and returns what List(page 1, pageSize 20) returns on
   the same store with the same filter: the same page and the same pagination
   (currentPage 1, pageSize 20, totalItems, totalPages). *)
C14_NonPositivePagingIsDefault ==
  \A p \in Procs :
    (Listed(p) /\ call[p].req.page <= 0 /\ call[p].req.pageSize <= 0)
    => /\ ent[p].limit = 20
       /\ ent[p].offset = 0
       /\ result[p].pagination.CurrentPage = 1
       /\ result[p].pagination.PageSize = 20
       /\ result[p] = ListAnswer(call[p].op, call[p].req.filter, 1, 20)

C14_Witness ==
  \E p \in Procs :
    /\ Listed(p)
    /\ call[p].req.page < 0
    /\ call[p].req.pageSize = 0
    /\ Len(result[p].data) > 1

\* the least n with n * pageSize >= totalItems
CeilingOfQuotient(totalItems, pageSize) ==
  CHOOSE n \in 0..totalItems :
    /\ n * pageSize >= totalItems
    /\ \A m \in 0..(n - 1) : m * pageSize < totalItems

(* C15: a List called with pageSize > 100 hands limit 100 to repo.List and
   reports pageSize 100; and whatever the pageSize, the reported totalPages is
   ceil(totalItems / pageSize) for the pageSize reported, and is 0 exactly
   when totalItems is 0. *)
C15_ClampAndTotalPages ==
  \A p \in Procs :
    Listed(p)
    => LET pg == result[p].pagination
       IN /\ call[p].req.pageSize > 100
               => (ent[p].limit = 100 /\ pg.PageSize = 100)
          /\ pg.PageSize = ent[p].limit
          /\ pg.TotalPages = CeilingOfQuotient(pg.TotalItems, pg.PageSize)
          /\ (pg.TotalPages = 0) <=> (pg.TotalItems = 0)

\* a pageSize of 500 was clamped, and the items do not fill the pages evenly
C15_Witness ==
  \E p \in Procs :
    /\ Listed(p)
    /\ call[p].req.pageSize > 100
    /\ result[p].pagination.PageSize = 100
    /\ result[p].pagination.TotalItems % result[p].pagination.PageSize # 0
    /\ result[p].pagination.TotalPages = 1

\* the stored records of a List method's collection that match its filter
Matching(op, filter) ==
  IF op = "ListProperties" THEN DOMAIN Properties
  ELSE IF op = "ListCategories"
    THEN {c \in DOMAIN Categories :
            Supplied(filter.Classification)
              => Categories[c].Classification = Deref(filter.Classification)}
  ELSE {t \in DOMAIN Transactions :
          /\ Supplied(filter.PropertyID) => Transactions[t].PropertyID = filter.PropertyID
          /\ Supplied(filter.Type) => Transactions[t].Type = Deref(filter.Type)
          /\ Supplied(filter.CategoryID)
               => Transactions[t].CategoryID = Deref(filter.CategoryID)
          /\ filter.StartDate # NilPtr
               => Transactions[t].TransactionDate >= Deref(filter.StartDate)
          /\ filter.EndDate # NilPtr
               => Transactions[t].TransactionDate <= Deref(filter.EndDate)}

(* C16: the totalItems a List returns is the number of stored records that
   match the filter, whatever the page and pageSize (the limit and offset),
   pages beyond the last one included. *)
C16_TotalItemsIsFilteredCount ==
  \A p \in Procs :
    Listed(p)
    => result[p].pagination.TotalItems
         = Cardinality(Matching(call[p].op, call[p].req.filter))

\* a filtered List of a page beyond the last one: no rows, the full count
C16_Witness ==
  \E p \in Procs :
    /\ Listed(p)
    /\ call[p].op = "ListTransactions"
    /\ Supplied(call[p].req.filter.Type)
    /\ ent[p].offset >= result[p].pagination.TotalItems
    /\ result[p].pagination.TotalItems > 1
    /\ result[p].pagination.TotalItems < Cardinality(DOMAIN Transactions)
    /\ result[p].data = <<>>

\* transaction x does not come after y: later date, or same date and a
\* createdAt that is not earlier
NotAfter(x, y) ==
  \/ Transactions[x].TransactionDate > Transactions[y].TransactionDate
  \/ /\ Transactions[x].TransactionDate = Transactions[y].TransactionDate
     /\ Transactions[x].CreatedAt >= Transactions[y].CreatedAt

(* C17: ListTransactions returns stored transactions that satisfy every
   supplied filter (propertyID, type, categoryID equal; transactionDate within
   [start, end], both inclusive; a filter that is nil or blank constrains
   nothing), each as stored, ordered by transactionDate descending then
   createdAt descending, and the page is the slice [offset, offset + limit) of
   that ordering of all the matching transactions. *)
C17_TransactionListFilterOrderSlice ==
  \A p \in Procs :
    (Listed(p) /\ call[p].op = "ListTransactions")
    => LET data == result[p].data
           M == Matching("ListTransactions", call[p].req.filter)
           shown == {data[i].ID : i \in DOMAIN data}
           n == Cardinality(M)
           skip == IF ent[p].offset < n THEN ent[p].offset ELSE n
           len == IF n - skip < ent[p].limit THEN n - skip ELSE ent[p].limit
       IN /\ shown \subseteq M
          /\ Len(data) = len
          /\ Cardinality(shown) = len
          /\ \A i \in DOMAIN data : data[i] = Transactions[data[i].ID]
          /\ \A i, j \in DOMAIN data : i < j => NotAfter(data[i].ID, data[j].ID)
          /\ \E skipped \in SUBSET (M \ shown) :
               /\ Cardinality(skipped) = skip
               /\ \A x \in skipped : \A y \in M \ skipped : NotAfter(x, y)
               /\ \A x \in shown : \A y \in M \ (skipped \cup shown) : NotAfter(x, y)

\* the filter of the scenario (property, type, start and end date), second
\* page of two rows: one row after two that were skipped
C17_Witness ==
  \E p \in Procs :
    /\ Listed(p)
    /\ call[p].op = "ListTransactions"
    /\ Supplied(call[p].req.filter.PropertyID)
    /\ Supplied(call[p].req.filter.Type)
    /\ call[p].req.filter.StartDate # NilPtr
    /\ call[p].req.filter.EndDate # NilPtr
    /\ ent[p].offset = 2
    /\ Len(result[p].data) = 1
    /\ result[p].pagination.TotalItems = 3
    /\ Cardinality(DOMAIN Transactions) > 3

PortOps == {"repo.List", "repo.GetProperties"}

\* what C21 asks of the port methods in ops
InvalidLimitContract(ops) ==
  \A p \in Procs :
    (/\ pc[p] = "done"
     /\ call[p].op \in ops
     /\ (call[p].req.limit < 1 \/ call[p].req.limit > 100))
    => /\ result[p].err = ErrInvalidLimit
       /\ result[p].data = <<>>
       /\ result[p].totalItems = 0

(* C21: a store port List called with limit < 1 or limit > 100 fails with
   InvalidLimit and returns no records and no count. *)
C21_InvalidLimit == InvalidLimitContract(PortOps)

\* the part of C21 the code does deliver: GetProperties of the older repository
C21_GetProperties == InvalidLimitContract({"repo.GetProperties"})

\* a port string that leaves the choice of the port to the default
LeavesDefault(port) ==
  port = <<>> \/ (Atoi(port).err = NoErr /\ Atoi(port).value = 0)

\* a port string that parses to a non-zero integer outside 1024..65535
OutOfRange(port) ==
  /\ Atoi(port).err = NoErr
  /\ Atoi(port).value # 0
  /\ (Atoi(port).value < 1024 \/ Atoi(port).value > 65535)

(* C22: a Config that config.New returns without error has its Port within
   1024..65535, and Port 8080 when every port option is empty or parses to 0;
   a WithPort whose string parses to a non-zero integer outside that range
   fails with ErrPortOutOfRange and leaves Config.Port as it was, and New then
   returns no Config. *)
C22_PortInRange ==
  [][/\ (boot'.pc = "returned" /\ boot'.err = NoErr)
          => /\ boot'.returned # NilPtr
             /\ boot'.config.Port >= 1024
             /\ boot'.config.Port <= 65535
             /\ (\A i \in DOMAIN boot'.given :
                   boot'.given[i].kind = "WithPort" => LeavesDefault(boot'.given[i].arg))
                  => boot'.config.Port = 8080
     /\ (/\ boot.pc = "loop"
         /\ boot.options # <<>>
         /\ Head(boot.options).kind = "WithPort"
         /\ OutOfRange(Head(boot.options).arg))
          => /\ boot'.pc = "returned"
             /\ boot'.err = ErrPortOutOfRange
             /\ boot'.config.Port = boot.config.Port
             /\ boot'.returned = NilPtr]_vars

\* New was given a port of 9000 and then one of 65536: it returned the error
\* and no Config, and the Config it had built still holds 9000
C22_Witness ==
  /\ boot.pc = "returned"
  /\ boot.err = ErrPortOutOfRange
  /\ boot.returned = NilPtr
  /\ boot.config.Port = 9000
  /\ \E i \in DOMAIN boot.given :
       /\ boot.given[i].kind = "WithPort"
       /\ Atoi(boot.given[i].arg).value = 65536

\* request p is an UpdateCategory that read its category and merged a request
\* into it that changes the name and/or the classification (to a valid one)
ChangesPair(p) ==
  /\ Returned(p, "UpdateCategory")
  /\ fetched[p] # NoEntity
  /\ ~MergeCategory(fetched[p], call[p].req).invalid
  /\ \/ ent[p].Name # fetched[p].Name
     \/ ent[p].Classification # fetched[p].Classification

\* a stored category other than the one being updated holds the resulting pair
PairTaken(p) ==
  \E d \in DOMAIN Categories \ {call[p].id} :
    /\ Categories[d].Name = ent[p].Name
    /\ Categories[d].Classification = ent[p].Classification

(* C23: an UpdateCategory that changes name and/or classification fails with
   Conflict and writes nothing when a different stored category holds the
   resulting (name, classification); when no other category holds it, the call
   succeeds and the stored record carries the new pair. *)
C23_UpdateCategoryUniqueness ==
  \A p \in Procs :
    ChangesPair(p)
    => IF PairTaken(p)
         THEN /\ result[p].code = CodeConflict
              /\ "Update" \notin ports[p]
              /\ Categories[call[p].id] = fetched[p]
         ELSE /\ result[p].code = CodeNone
              /\ call[p].id \in DOMAIN Categories
              /\ Categories[call[p].id].Name = ent[p].Name
              /\ Categories[call[p].id].Classification = ent[p].Classification

\* the half of C23 the code does deliver: a pair that is taken is a Conflict
C23_TakenPairIsConflict ==
  \A p \in Procs :
    (ChangesPair(p) /\ PairTaken(p))
    => /\ result[p].code = CodeConflict
       /\ "Update" \notin ports[p]
       /\ Categories[call[p].id] = fetched[p]

(* C24: CreateTransaction with a categoryID that no stored category has
   returns in that step with a Validation error that carries a "categoryId"
   entry; repo.Create is not invoked and no transaction is written. *)
C24_MissingCategoryRejected ==
  [][\A p \in Procs :
       (/\ Accepts(p, "CreateTransaction")
        /\ call'[p].req.CategoryID \notin DOMAIN Categories)
       => /\ pc'[p] = "done"
          /\ result'[p].code = CodeValidationError
          /\ "categoryId" \in result'[p].details
          /\ "Create" \notin ports'[p]
          /\ store' = store]_vars

C24_Witness ==
  \E p \in Procs :
    /\ Returned(p, "CreateTransaction")
    /\ call[p].req.CategoryID \notin DOMAIN Categories
    /\ "categoryRepo.GetByID" \in ports[p]
    /\ result[p].code = CodeValidationError
    /\ result[p].details = {"categoryId"}
    /\ \A t \in DOMAIN Transactions : Transactions[t].CategoryID # call[p].req.CategoryID

\* p and q are two runs of one service call that both ended in Internal after
\* the same store-port calls, each because Firestore failed
SameCallFailed(p, q) ==
  /\ p # q
  /\ pc[p] = "done"
  /\ pc[q] = "done"
  /\ call[p] = call[q]
  /\ ports[p] = ports[q]
  /\ result[p].code = CodeInternalError
  /\ result[q].code = CodeInternalError
  /\ result[p].cause \in Faults
  /\ result[q].cause \in Faults

(* C25: what the caller sees of an Internal error (code, message, details)
   does not depend on the store error: two runs of the same service call that
   fail with different infrastructure errors return the same code, message and
   details. *)
C25_InternalHidesStoreError ==
  \A p, q \in Procs :
    SameCallFailed(p, q) => InternalBody(result[p]) = InternalBody(result[q])

\* the part of C25 the code does deliver: the code and the details
C25_CodeAndDetails ==
  \A p, q \in Procs :
    SameCallFailed(p, q)
    => /\ InternalBody(result[p]).code = InternalBody(result[q]).code
       /\ InternalBody(result[p]).details = InternalBody(result[q]).details

\* the page a List request asks for, normalised
NormalPage(p) == IF call[p].req.page <= 0 THEN 1 ELSE call[p].req.page

\* request p is a List that has called repo.List
ListCalled(p) ==
  call[p].op \in ListOps /\ pc[p] \in {"page", "done"} /\ ent[p] # NoEntity

(* C26: whatever integers page and pageSize are, the limit a List passes to
   repo.List is within 1..100 and the offset it passes is (P - 1) * limit and
   not negative, P being the page normalised (1 when page <= 0); the response
   reports currentPage P and pageSize limit.  (offset = (P - 1) * limit is
   stated as: offset divided by limit is P - 1, without remainder.) *)
C26_LimitAndOffset ==
  \A p \in Procs :
    ListCalled(p)
    => /\ ent[p].limit >= 1
       /\ ent[p].limit <= 100
       /\ ent[p].offset >= 0
       /\ ent[p].offset \div ent[p].limit = NormalPage(p) - 1
       /\ ent[p].offset % ent[p].limit = 0
       /\ Listed(p)
            => /\ result[p].pagination.CurrentPage = NormalPage(p)
               /\ result[p].pagination.PageSize = ent[p].limit

\* the part of C26 the code does deliver: the limit and the page, and the
\* offset as long as (P - 1) * limit is within int
C26_WithinInt ==
  \A p \in Procs :
    ListCalled(p)
    => /\ ent[p].limit >= 1
       /\ ent[p].limit <= 100
       /\ ent[p].page = NormalPage(p)
       /\ NormalPage(p) - 1 <= MaxInt \div ent[p].limit
            => /\ ent[p].offset >= 0
               /\ ent[p].offset \div ent[p].limit = NormalPage(p) - 1
               /\ ent[p].offset % ent[p].limit = 0
       /\ Listed(p)
            => /\ result[p].pagination.CurrentPage = NormalPage(p)
               /\ result[p].pagination.PageSize = ent[p].limit

ClientErrors == {CodeBadRequest, CodeValidationError, CodeNotFound, CodeConflict}

WritePorts == {"Create", "Update", "Delete"}

(* C27: a Create, Update or Delete that returns BadRequest, Validation,
   NotFound or Conflict leaves the three collections as they were: every step
   such a call takes leaves every collection unchanged (the steps before a
   repository write, which are the only ones it takes), and it returns without
   having called repo.Create, repo.Update or repo.Delete. *)
C27_ClientErrorWritesNothing ==
  [][\A p \in Procs :
       /\ (/\ pc[p] \in {"idle", "unique", "validate"}
           /\ pc'[p] # pc[p]
           /\ call'[p].op \in CreateOps \cup UpdateOps \cup DeleteOps)
          => store' = store
       /\ (/\ pc[p] # "done"
           /\ pc'[p] = "done"
           /\ call'[p].op \in CreateOps \cup UpdateOps \cup DeleteOps
           /\ result'[p].code \in ClientErrors)
          => /\ pc[p] \in {"idle", "unique", "validate"}
             /\ ports'[p] \cap WritePorts = {}
             /\ store' = store]_vars

\* an UpdateCategory came back with Conflict from its uniqueness lookup, and
\* the category is as the call read it
C27_Witness ==
  \E p \in Procs :
    /\ Returned(p, "UpdateCategory")
    /\ result[p].code = CodeConflict
    /\ "FindByNameAndClassification" \in ports[p]
    /\ ent[p] # fetched[p]
    /\ Categories[call[p].id] = fetched[p]

\* this step is the repository write of a Create of p that succeeds
CreateWritten(p) ==
  /\ pc[p] = "set"
  /\ pc'[p] = "done"
  /\ call[p].op \in CreateOps
  /\ result'[p].code = CodeNone

\* the write of a Create adds one record under the id returned and leaves the
\* rest alone
AddsOneRecord(p) ==
  LET coll == Collection(call[p].op)
      id == result'[p].entity.ID
  IN /\ id \notin DOMAIN store[coll]
     /\ DOMAIN store'[coll] = DOMAIN store[coll] \cup {id}
     /\ \A x \in DOMAIN store[coll] : store'[coll][x] = store[coll][x]
     /\ \A other \in DOMAIN store \ {coll} : store'[other] = store[other]

\* what GetByID of that id returns once the write is done
ReadBack(p) ==
  LET coll == Collection(call[p].op)
      id == result'[p].entity.ID
  IN ToResponse(call[p].op, [store'[coll][id] EXCEPT !.ID = id])

TimeFields == {"CreatedAt", "UpdatedAt", "TransactionDate"}

(* C28: a successful Create adds exactly one record, stored under the id the
   call returns, and changes no record that was there; a GetByID of that id
   made before any other write returns an entity equal field for field to the
   one Create returned. *)
C28_CreateRoundTrip ==
  [][\A p \in Procs :
       CreateWritten(p) => AddsOneRecord(p) /\ ReadBack(p) = result'[p].entity]_vars

\* the part of C28 the code does deliver: one record added under the id
\* returned, equal to the entity returned in every field that is not a time
C28_ExceptTimes ==
  [][\A p \in Procs :
       CreateWritten(p)
       => /\ AddsOneRecord(p)
          /\ \A f \in DOMAIN ReadBack(p) \ TimeFields :
               ReadBack(p)[f] = result'[p].entity[f]]_vars

\* the collections, and the ids a collection holds before and after a step
AllCollections == {propertyCollection, categoryCollection, transactionCollection}

Kept(coll) == DOMAIN store[coll] \cap DOMAIN store'[coll]

\* no stored record was updated before it was created
CreatedBeforeUpdated ==
  \A coll \in AllCollections : \A id \in DOMAIN store[coll] :
    store[coll][id].CreatedAt <= store[coll][id].UpdatedAt

\* no step changes the createdAt of a stored record
CreatedAtKept ==
  \A coll \in AllCollections : \A id \in Kept(coll) :
    store'[coll][id].CreatedAt = store[coll][id].CreatedAt

\* no step lowers the updatedAt of a stored record
UpdatedAtGrows ==
  \A coll \in AllCollections : \A id \in Kept(coll) :
    store'[coll][id].UpdatedAt >= store[coll][id].UpdatedAt

(* C29: in every reachable state each stored record has createdAt <= updatedAt,
   and for each id the stored createdAt never changes and the stored updatedAt
   never decreases, across any sequence and any interleaving of Create and
   Update calls. *)
C29_Timestamps ==
  [][/\ CreatedBeforeUpdated
     /\ CreatedBeforeUpdated'
     /\ CreatedAtKept
     /\ UpdatedAtGrows]_vars

\* the part of C29 the code does deliver: createdAt <= updatedAt in every
\* stored record, and a createdAt that never changes
C29_CreatedAt ==
  [][CreatedBeforeUpdated /\ CreatedBeforeUpdated' /\ CreatedAtKept]_vars

\* the same under requests served one after the other: updatedAt never
\* decreases either
C29_SerialTimestamps ==
  [][CreatedBeforeUpdated' /\ CreatedAtKept /\ UpdatedAtGrows]_vars

\* what the reported totalItems leaves for the page at this offset
Remaining(totalItems, offset) ==
  IF totalItems > offset THEN totalItems - offset ELSE 0

(* C30: for every List call, under any interleaving with concurrent Create and
   Delete calls on the same store, the returned page holds at most pageSize
   items and at most max(0, totalItems - offset) items: the page never holds
   more records than the reported totalItems allows. *)
C30_PageWithinTotal ==
  \A p \in Procs :
    Listed(p)
    => /\ Len(result[p].data) <= result[p].pagination.PageSize
       /\ Len(result[p].data) <=
            Remaining(result[p].pagination.TotalItems, ent[p].offset)

\* the part of C30 the code does deliver under every interleaving: at most
\* pageSize items in the page
C30_AtMostPageSize ==
  \A p \in Procs :
    Listed(p) => Len(result[p].data) <= result[p].pagination.PageSize

====
